---------------------------- MODULE Spec2Model ----------------------------
(***************************************************************************)
(* KEC-HUB backend: the opportunity-extraction pipeline                    *)
(* (backend/app/opportunity_extractor) as a state machine.                 *)
(*                                                                         *)
(* Text is a TLA+ string, handled a character at a time, so that strip(),  *)
(* lower(), substring tests, the word-boundary regular expressions and the *)
(* tokenizer are computed as the code computes them.  An optional value    *)
(* (Python None / value) is a sequence of length 0 or 1.  A date is a day  *)
(* number; a datetime is a count of ticks, TicksPerDay ticks to the day.   *)
(* Scores are in tenths (1.2 is 12).                                       *)
(***************************************************************************)
EXTENDS Integers, Sequences, FiniteSets, TLC

\* ------------------------------------------------------------------ text

None == <<>>
Some(v) == <<v>>

Min(a, b) == IF a <= b THEN a ELSE b
Max(a, b) == IF a >= b THEN a ELSE b

\* s[i-1] of Python, i from 1
Ch(s, i) == SubSeq(s, i, i)

UpperChars == "ABCDEFGHIJKLMNOPQRSTUVWXYZ"
LowerChars == "abcdefghijklmnopqrstuvwxyz"
DigitChars == "0123456789"

CharsOf(s) == {Ch(s, i) : i \in 1..Len(s)}

UpperSet == CharsOf(UpperChars)
LowerSet == CharsOf(LowerChars)
DigitSet == CharsOf(DigitChars)
ToLower == [c \in UpperSet |-> Ch(LowerChars, CHOOSE i \in 1..26 : Ch(UpperChars, i) = c)]
ToUpper == [c \in LowerSet |-> Ch(UpperChars, CHOOSE i \in 1..26 : Ch(LowerChars, i) = c)]

\* str.lower()
RECURSIVE Lower(_)
Lower(s) ==
    IF s = "" THEN ""
    ELSE (IF Ch(s, 1) \in UpperSet THEN ToLower[Ch(s, 1)] ELSE Ch(s, 1))
         \o Lower(SubSeq(s, 2, Len(s)))

\* str.upper()
RECURSIVE Upper(_)
Upper(s) ==
    IF s = "" THEN ""
    ELSE (IF Ch(s, 1) \in LowerSet THEN ToUpper[Ch(s, 1)] ELSE Ch(s, 1))
         \o Upper(SubSeq(s, 2, Len(s)))

IsSpace(c) == c = " "

\* str.strip()
Strip(s) ==
    LET idx == {i \in 1..Len(s) : ~IsSpace(Ch(s, i))}
    IN  IF idx = {} THEN ""
        ELSE SubSeq(s, CHOOSE i \in idx : \A j \in idx : i <= j,
                       CHOOSE i \in idx : \A j \in idx : i >= j)

\* str.rstrip()
RStrip(s) ==
    LET idx == {i \in 1..Len(s) : ~IsSpace(Ch(s, i))}
    IN  IF idx = {} THEN ""
        ELSE SubSeq(s, 1, CHOOSE i \in idx : \A j \in idx : i >= j)

\* `needle in hay`
Contains(hay, needle) ==
    \E i \in 0..(Len(hay) - Len(needle)) : SubSeq(hay, i + 1, i + Len(needle)) = needle

\* any(w in hay for w in words)
ContainsAny(hay, words) == \E w \in words : Contains(hay, w)

\* sep.join(parts)
RECURSIVE Join(_, _)
Join(sep, parts) ==
    IF parts = <<>> THEN ""
    ELSE IF Len(parts) = 1 THEN parts[1]
    ELSE parts[1] \o sep \o Join(sep, Tail(parts))

\* regular-expression \w, and \b between the characters at p and p+1
WordChars == UpperSet \cup LowerSet \cup DigitSet \cup {"_"}
WordAt(s, p) == p >= 1 /\ p <= Len(s) /\ Ch(s, p) \in WordChars
Boundary(s, p) == WordAt(s, p) # WordAt(s, p + 1)

\* re.search(r"\b(alt1|alt2|...)\b", s, re.I) for literal alternatives
SearchWord(s, alts) ==
    LET low == Lower(s)
    IN  \E a \in alts : \E i \in 0..(Len(s) - Len(a)) :
            /\ SubSeq(low, i + 1, i + Len(a)) = a
            /\ Boundary(s, i)
            /\ Boundary(s, i + Len(a))

\* ------------------------------------------------- utils.py, scoring.py

TicksPerDay == 2

_CLOSED_RE ==
    {"closed", "expired", "ended", "no longer accepting",
     "application closed", "applications closed"}

\* sr\.? contributes the two alternatives "sr" and "sr."
_SENIOR_RE ==
    {"sr", "sr.", "senior", "staff", "lead", "principal",
     "manager", "director", "head", "architect"}

looks_closed(text) == SearchWord(text, _CLOSED_RE)

looks_senior(title) == SearchWord(title, _SENIOR_RE)

\* re.sub(r"\s+", " ", s): runs of spaces become one space
RECURSIVE Collapse(_)
Collapse(s) ==
    IF s = "" THEN ""
    ELSE IF Len(s) >= 2 /\ IsSpace(Ch(s, 1)) /\ IsSpace(Ch(s, 2))
        THEN Collapse(SubSeq(s, 2, Len(s)))
    ELSE Ch(s, 1) \o Collapse(SubSeq(s, 2, Len(s)))

normalize_text(text) == Collapse(Strip(text))

\* the one-character ellipsis U+2026
Ellipsis == "~"

safe_excerpt(text, limit) ==
    LET t == normalize_text(text)
    IN  IF Len(t) <= limit THEN t
        ELSE RStrip(SubSeq(t, 1, Max(0, limit - 1))) \o Ellipsis

\* timedelta.days: whole days, rounded towards minus infinity
AgeDays(utcnow, published) == (utcnow - published) \div TicksPerDay

\* is_active with `deadline > today` in place of `deadline >= today`
is_active_strict(deadline, published_at, max_age_days, today, utcnow) ==
    IF deadline # None THEN deadline[1] > today
    ELSE IF published_at = None THEN FALSE
    ELSE (utcnow - published_at[1]) \div TicksPerDay <= max_age_days

is_active(deadline, published_at, max_age_days, today, utcnow) ==
    IF deadline # None THEN deadline[1] >= today
    ELSE IF published_at = None THEN FALSE
    ELSE AgeDays(utcnow, published_at[1]) <= max_age_days

\* [a-z0-9+#.]
TokenChars == LowerSet \cup DigitSet \cup {"+", "#", "."}

\* the pieces re.split(r"[^a-z0-9+#\.]+", v.lower()) yields that are 2 or longer
TokensOf(v) ==
    LET low == Lower(v)
        tok(p) == p >= 1 /\ p <= Len(low) /\ Ch(low, p) \in TokenChars
        starts == {i \in 1..Len(low) : tok(i) /\ ~tok(i - 1)}
        ends == {j \in 1..Len(low) : tok(j) /\ ~tok(j + 1)}
        endOf(i) == CHOOSE j \in ends : j >= i /\ \A k \in ends : k >= i => j <= k
    IN  {SubSeq(low, i, endOf(i)) : i \in {k \in starts : endOf(k) > k}}

_tokenize(values) == UNION {TokensOf(values[i]) : i \in DOMAIN values}

\* code-point order of the characters a token can hold
CodeOrder == "#+.0123456789abcdefghijklmnopqrstuvwxyz"
CodeOf == [c \in CharsOf(CodeOrder) |-> CHOOSE i \in 1..Len(CodeOrder) : Ch(CodeOrder, i) = c]

\* a < b for Python str
StrLess(a, b) ==
    \E k \in 1..(Len(a) + 1) :
        /\ SubSeq(a, 1, k - 1) = SubSeq(b, 1, Min(k - 1, Len(b)))
        /\ k <= Len(b)
        /\ (k > Len(a) \/ CodeOf[Ch(a, k)] < CodeOf[Ch(b, k)])

\* sorted(list(tokens))
RECURSIVE SortedStrs(_)
SortedStrs(set) ==
    IF set = {} THEN <<>>
    ELSE LET m == CHOOSE x \in set : \A y \in set \ {x} : StrLess(x, y)
         IN  <<m>> \o SortedStrs(set \ {m})

FresherWords == {"intern", "fresher", "graduate", "entry", "junior"}
SeniorWords == {"staff", "principal", "sr", "senior", "lead", "manager", "director"}

\* title_tokens.intersection(profile_tokens)
Overlap(op, prof) ==
    _tokenize(<<op.title, op.company, op.location>> \o op.tags)
        \cap _tokenize(<<prof.department>> \o prof.skills \o prof.interests)

\* score() with the seniority check as an elif of the fresher check
ScoreValueExclusive(op, prof) ==
    LET n == Cardinality(_tokenize(<<op.title, op.company, op.location>> \o op.tags)
                 \cap _tokenize(<<prof.department>> \o prof.skills \o prof.interests))
        title_low == Lower(op.title)
    IN  (IF n > 0 THEN Min(60, n * 12) ELSE 0)
        + (IF op.kind \in {"Internship", "Hackathon"} THEN 10 ELSE 0)
        + (IF ContainsAny(title_low, {"intern", "fresher", "graduate", "entry", "junior"})
              THEN 8
              ELSE IF ContainsAny(title_low, {"staff", "principal", "sr", "senior", "lead",
                                              "manager", "director"})
              THEN -15 ELSE 0)
        + (IF op.deadline # None THEN 10 ELSE 0)

\* the value of s at the end of score(), in tenths.  The float s differs from
\* this by less than 1e-15; two floats of the same tenths can differ in the
\* last bit (3.6 + 0.8 against 2.4 + 1.0 + 1.0), which the sort then orders
\* by score where this model sees a tie.
ScoreValue(op, prof) ==
    LET overlap == Overlap(op, prof)
        title_low == Lower(op.title)
    IN  (IF overlap # {} THEN Min(60, Cardinality(overlap) * 12) ELSE 0)
        + (IF op.kind \in {"Internship", "Hackathon"} THEN 10 ELSE 0)
        + (IF ContainsAny(title_low, FresherWords) THEN 8 ELSE 0)
        - (IF ContainsAny(title_low, SeniorWords) THEN 15 ELSE 0)
        + (IF op.deadline # None THEN 10 ELSE 0)

\* the list `reasons` at the end of score()
ScoreReasons(op, prof) ==
    LET overlap == Overlap(op, prof)
        title_low == Lower(op.title)
        sorted == SortedStrs(overlap)
    IN  (IF overlap # {}
            THEN <<"keyword match: " \o Join(", ", SubSeq(sorted, 1, Min(6, Len(sorted))))>>
            ELSE <<>>)
        \o (IF ContainsAny(title_low, FresherWords) THEN <<"fresher/intern friendly">> ELSE <<>>)
        \o (IF ContainsAny(title_low, SeniorWords) THEN <<"seniority down-rank">> ELSE <<>>)
        \o (IF op.deadline # None THEN <<"has deadline">> ELSE <<>>)

\* score() with `s` and `reasons` starting from the object's fields
score_accumulating(op, prof) ==
    [op EXCEPT !.score = @ + ScoreValue(op, prof), !.reasons = @ \o ScoreReasons(op, prof)]

\* score(opportunity, profile): the record with score and reasons assigned
score(op, prof) ==
    [op EXCEPT !.score = ScoreValue(op, prof), !.reasons = ScoreReasons(op, prof)]

\* ----------------------------------------------------------- extractor.py

\* datetime.max.date() as a day number (date.max.toordinal())
DateMax == 3652059

\* the key without .lower()
UrlKeyCased(url) == Strip(url)

\* the canonical URL: source_url.strip().lower()
UrlKey(url) == Lower(Strip(url))

india_tokens ==
    {"india", "tamil nadu", "kerala", "karnataka", "telangana", "andhra",
     "maharashtra", "delhi", "chennai", "coimbatore", "erode", "salem",
     "bengaluru", "bangalore", "hyderabad", "pune", "mumbai", "noida",
     "gurgaon", "kolkata", "ahmedabad", "remote", "wfh",
     "work from home", "worldwide"}

\* variant: _location_ok without the opp_include_remote test
_location_ok_remote_kept(location, cfg) ==
    LET mode == Upper(Strip(IF cfg.opp_country # "" THEN cfg.opp_country ELSE "any"))
    IN  IF mode = "ANY" THEN TRUE
        ELSE IF Lower(location) = "" THEN TRUE
        ELSE ContainsAny(Lower(location), india_tokens)

_location_ok(location, cfg) ==
    LET mode == Upper(Strip(IF cfg.opp_country # "" THEN cfg.opp_country ELSE "any"))
        loc == Lower(location)
    IN  IF mode = "ANY" THEN TRUE
        ELSE IF loc = "" THEN TRUE
        ELSE IF ContainsAny(loc, india_tokens)
            THEN ~(/\ ContainsAny(loc, {"remote", "wfh", "work from home", "worldwide"})
                   /\ ~cfg.opp_include_remote)
        ELSE FALSE

\* _dedupe where a later record replaces the one kept for its key
RECURSIVE DedupeLast(_, _, _)
DedupeLast(items, seen, out) ==
    IF items = <<>> THEN out
    ELSE LET key == Lower(Strip(Head(items).source_url))
             later == \E k \in 2..Len(items) : Lower(Strip(items[k].source_url)) = key
         IN  IF key = "" \/ later
                THEN DedupeLast(Tail(items), seen, out)
                ELSE DedupeLast(Tail(items), seen, Append(out, Head(items)))

RECURSIVE DedupeFrom(_, _, _)
DedupeFrom(items, seen, out) ==
    IF items = <<>> THEN out
    ELSE LET key == UrlKey(Head(items).source_url)
         IN  IF key = "" \/ key \in seen
                THEN DedupeFrom(Tail(items), seen, out)
                ELSE DedupeFrom(Tail(items), seen \cup {key}, Append(out, Head(items)))

_dedupe(items) == DedupeFrom(items, {}, <<>>)

\* the seniority test switched off
PassSeniorAlways(op, cfg) == TRUE

\* the five predicates of the filter loop, in the code's order
PassSenior(op, cfg) == ~(cfg.opp_exclude_senior /\ looks_senior(op.title))
PassRegion(op, cfg) ==
    ~(Upper(Strip(cfg.opp_country)) # "ANY" /\ ~_location_ok(op.location, cfg))
PassClosed(op) == ~looks_closed(op.title \o " " \o op.excerpt)
PassActive(op, cfg, clk) ==
    is_active(op.deadline, op.published_at, cfg.opp_max_age_days, clk.today, clk.utcnow)
\* variant: the remote test without the opp_include_remote flag
PassRemoteFlagIgnored(op, cfg) ==
    ~ContainsAny(Lower(op.location), {"remote", "work from home", "wfh"})

PassRemote(op, cfg) ==
    ~(/\ ~cfg.opp_include_remote
      /\ ContainsAny(Lower(op.location), {"remote", "work from home", "wfh"}))

FilterKeep(op, cfg, clk) ==
    /\ PassSenior(op, cfg)
    /\ PassRegion(op, cfg)
    /\ PassClosed(op)
    /\ PassActive(op, cfg, clk)
    /\ PassRemote(op, cfg)

Filtered(combined, cfg, clk) ==
    LET keep(op) == FilterKeep(op, cfg, clk) IN SelectSeq(combined, keep)

\* the sort key with a missing deadline as the minimal date
DeadlineKeyMin(op) == IF op.deadline # None THEN op.deadline[1] ELSE 0

\* the sort key (x.score, x.deadline or datetime.max.date())
DeadlineKey(op) == IF op.deadline # None THEN op.deadline[1] ELSE DateMax
KeyGE(a, b) ==
    \/ a.score > b.score
    \/ a.score = b.score /\ DeadlineKey(a) >= DeadlineKey(b)

\* list.sort(key=..., reverse=True): descending and stable
RECURSIVE SortRankedInto(_, _)
SortRankedInto(todo, done) ==
    IF todo = <<>> THEN done
    ELSE LET x == Head(todo)
             k == Cardinality({i \in DOMAIN done : KeyGE(done[i], x)})
         IN  SortRankedInto(Tail(todo),
                 SubSeq(done, 1, k) \o <<x>> \o SubSeq(done, k + 1, Len(done)))

SortRanked(ranked) == SortRankedInto(ranked, <<>>)

\* no cut of the ranked list
SliceAll(seq, n) == seq

\* seq[:n]
SliceTo(seq, n) ==
    IF n >= 0 THEN SubSeq(seq, 1, Min(n, Len(seq)))
    ELSE SubSeq(seq, 1, Max(0, Len(seq) + n))

\* [score(op, profile) for op in filtered]
ScoreAll(filtered, prof) == [i \in DOMAIN filtered |-> score(filtered[i], prof)]

\* extract_with_meta after the adapter has returned: dedupe, filter, score, sort, cut
Ranked(adzuna_list, prof, cfg, clk) ==
    LET combined == _dedupe(adzuna_list)
        filtered == Filtered(combined, cfg, clk)
        ranked == SortRanked(ScoreAll(filtered, prof))
    IN  SliceTo(ranked, cfg.opp_max_results)

web_meta == [enabled |-> FALSE, provider |-> None, used |-> FALSE, error |-> None]

\* ------------------------------------------------------ sources/adzuna.py

_build_queries(prof) ==
    LET dept == Strip(prof.department)
        skills == SelectSeq([i \in DOMAIN prof.skills |-> Strip(prof.skills[i])],
                            LAMBDA x : x # "")
        dept_hint ==
            IF dept # "" /\ Lower(dept) \notin {"computer science", "cse", "cs", "computer"}
                THEN dept ELSE ""
        skill_hint == Strip(Join(" ", SubSeq(skills, 1, Min(2, Len(skills)))))
        q1 == Strip(Join(" ", <<"software", "intern", skill_hint, dept_hint>>))
    IN  SelectSeq(<<q1, "software intern", "internship", "graduate trainee">>,
                  LAMBDA q : q # "")

\* item["created"] is absent, or text that is or is not an ISO timestamp
_parse_dt(value) ==
    IF value = None THEN None
    ELSE IF value[1].iso THEN Some(value[1].ticks)
    ELSE None

\* the kind ladder of _to_op
KindOf(title, category) ==
    LET low == Lower(title \o " " \o category)
    IN  IF Contains(low, "intern") THEN "Internship"
        ELSE IF Contains(low, "hackathon") THEN "Hackathon"
        ELSE IF ContainsAny(low, {"workshop", "bootcamp", "training"}) THEN "Workshop"
        ELSE IF ContainsAny(low, {"graduate", "junior", "entry", "fresher"}) THEN "Full-time"
        ELSE "Other"

\* str(d.get(name) or "").strip() of a sub-object that may be missing
OptText(v) == IF v = None THEN "" ELSE Strip(v[1])

\* _to_op(item, match_method): None, or Some(record).  The id keeps the text
\* the SHA-1 digest is taken of.
_to_op(item, match_method) ==
    LET title == Strip(item.title)
        redirect_url ==
            IF Strip(item.redirect_url) # "" THEN Strip(item.redirect_url)
            ELSE Strip(item.redirectUrl)
        company == OptText(item.company)
        location == OptText(item.location)
        category == OptText(item.category)
        base == IF item.id # "" THEN item.id ELSE redirect_url
    IN  IF title = "" THEN None
        ELSE IF redirect_url = "" THEN None
        ELSE Some([id |-> "adzuna-" \o base,
                   title |-> title,
                   company |-> company,
                   kind |-> KindOf(title, category),
                   location |-> IF location # "" THEN location ELSE "India",
                   source |-> "Adzuna (India)",
                   source_url |-> redirect_url,
                   match_method |-> Some(match_method),
                   published_at |-> _parse_dt(item.created),
                   deadline |-> None,
                   excerpt |-> safe_excerpt(item.description, 220),
                   tags |-> IF category # "" THEN <<category>> ELSE <<>>,
                   score |-> 0,
                   reasons |-> <<>>])

\* ------------------------------------------------------------ the inputs

MaxResults == 2
MaxAgeDays == 1
NowTicks == 40

\* the `created` stamps the provider can send, relative to the clock
CreatedFresh == Some([iso |-> TRUE, ticks |-> NowTicks - TicksPerDay * MaxAgeDays])
CreatedStale == Some([iso |-> TRUE, ticks |-> NowTicks - TicksPerDay * (MaxAgeDays + 1)])
CreatedBad == Some([iso |-> FALSE, ticks |-> 0])

OptS(lit) == IF lit = "" THEN None ELSE Some(lit)

RawItem(title, url, location, category, description, created) ==
    [title |-> title, redirect_url |-> url, redirectUrl |-> "",
     company |-> None, location |-> OptS(location), category |-> OptS(category),
     description |-> description, created |-> created, id |-> ""]

\* entries of the provider's "results" arrays
ItemA == RawItem("ML Intern", "http://a/1", "Chennai", "IT Jobs", "Apply  now", CreatedFresh)
ItemB == RawItem("Sr. Dev", " HTTP://A/1", "Remote", "", "", CreatedFresh)
ItemC == RawItem("Python Dev", "http://a/1/", "", "Graduate Jobs", "", CreatedFresh)
ItemD == RawItem("Lead Intern", "http://a/2", "Berlin", "", "now closed", CreatedStale)
ItemE == RawItem("", "http://a/3", "", "", "", CreatedBad)
ItemF == RawItem("Staff Nurse", "http://a/4", "Pune", "", "", CreatedFresh)

\* the "results" arrays a search request can be answered with
Pages ==
    {<<>>, <<ItemA>>, <<ItemB, ItemA>>, <<ItemE, ItemC>>, <<ItemD>>,
     <<ItemA, ItemC, ItemF>>, <<ItemF, ItemD, ItemB, ItemC>>}

Profile(dept, skills, interests) ==
    [email |-> "s@kongu.edu", department |-> dept, skills |-> skills, interests |-> interests]

Profiles ==
    {Profile("CSE", <<"python", " ML ">>, <<>>),
     Profile("", <<>>, <<"jobs">>)}

\* lists GroqQueryExpander.expand can return
ExpanderOutputs == {<<>>, <<"ml intern">>, <<"Internship", "Software Intern">>}

Settings(id, key, n, country, remote, senior, groq) ==
    [adzuna_app_id |-> id, adzuna_app_key |-> key, opp_max_results |-> n,
     opp_max_age_days |-> MaxAgeDays, opp_country |-> country,
     opp_include_remote |-> remote, opp_exclude_senior |-> senior, groq_api_key |-> groq,
     groq_model |-> "", web_search_provider |-> "none", serpapi_api_key |-> "",
     google_cse_api_key |-> "", google_cse_cx |-> "", opp_web_search_max_queries |-> 3,
     opp_web_search_allowed_domains |-> ""]

\* the same configuration with a web-search provider selected
WithWeb(cfg, provider, serpapi_key, cse_key, cse_cx) ==
    [cfg EXCEPT !.web_search_provider = provider, !.serpapi_api_key = serpapi_key,
                !.google_cse_api_key = cse_key, !.google_cse_cx = cse_cx]

\* every combination for a positive opp_max_results; one configuration with
\* opp_max_results = 0, where the adapter falls back to 25 per page; two with
\* a web-search provider selected, with and without its credentials
SettingsSet ==
    {Settings(c[1], c[2], n, region[1], region[2], senior, groq) :
        c \in {<<"id", "key">>, <<"", "key">>, <<"id", " ">>},
        n \in 1..MaxResults,
        region \in {<<"IN", FALSE>>, <<"IN", TRUE>>, <<" any", FALSE>>},
        senior \in BOOLEAN,
        groq \in {"", "gk"}}
    \cup {Settings("id", "key", 0, "IN", TRUE, FALSE, "")}
    \cup {WithWeb(Settings("", "key", 1, "IN", TRUE, TRUE, ""), " SerpAPI", "sk", "", ""),
          WithWeb(Settings("id", "", 1, "IN", TRUE, TRUE, ""), "google_cse", "", "gk", " ")}

Clocks == {[today |-> NowTicks \div TicksPerDay, utcnow |-> NowTicks]}

Catalog == {ItemA, ItemB, ItemC, ItemD, ItemE, ItemF}

\* variant: every record is labelled as if a base query had produced it
ToOpBaseOnly == [item \in Catalog |-> [m \in {"base", "groq"} |-> _to_op(item, "base")]]

\* _to_op of every catalog entry under both provenances
ToOp == [item \in Catalog |-> [m \in {"base", "groq"} |-> _to_op(item, m)]]

\* ------------------------------------------- sources/adzuna.py: fetch

\* results_per_page as OpportunityExtractor.__init__ and AdzunaIndiaSource.__init__ set it
ResultsPerPage(cfg) ==
    Max(1, Min(50, Min(50, IF cfg.opp_max_results # 0 THEN cfg.opp_max_results ELSE 25)))

\* the query list with provenance: primary, groq, fallbacks; deduplicated, at most 10
RECURSIVE DedupeQueries(_, _, _)
DedupeQueries(query_items, seen_q, out) ==
    IF query_items = <<>> \/ Len(out) >= 10 THEN out
    ELSE LET k == Lower(Strip(Head(query_items).q))
         IN  IF k = "" \/ k \in seen_q
                THEN DedupeQueries(Tail(query_items), seen_q, out)
                ELSE DedupeQueries(Tail(query_items), seen_q \cup {k}, Append(out, Head(query_items)))

\* variant: every base query goes before the groq queries
QueryListBaseFirst(base_queries, expandedQs) ==
    LET tag(qs, m) == [i \in DOMAIN qs |-> [q |-> qs[i], method |-> m]]
    IN  DedupeQueries(tag(base_queries, "base") \o tag(expandedQs, "groq"), {}, <<>>)

QueryList(base_queries, expandedQs) ==
    LET tag(qs, m) == [i \in DOMAIN qs |-> [q |-> qs[i], method |-> m]]
        query_items ==
            (IF base_queries # <<>> THEN tag(<<base_queries[1]>>, "base") ELSE <<>>)
            \o tag(expandedQs, "groq")
            \o (IF Len(base_queries) > 1 THEN tag(Tail(base_queries), "base") ELSE <<>>)
    IN  DedupeQueries(query_items, {}, <<>>)

\* variant: a third page per query
max_pages_three == 2 + 1

max_pages == 2
\* variant: the budget is one more than results_per_page
MaxTotalOneMore(cfg) == ResultsPerPage(cfg) + 1

MaxTotal(cfg) == ResultsPerPage(cfg)
PerQueryCap(cfg, qs) == Max(3, MaxTotal(cfg) \div Max(1, Min(Len(qs), 4)))
GroqQueryAvailable(qs) == \E i \in DOMAIN qs : qs[i].method = "groq"
ReserveForGroq(cfg, qs) == IF GroqQueryAvailable(qs) THEN Max(3, MaxTotal(cfg) \div 3) ELSE 0
\* None, or the position (from 1) of the first groq query
FirstGroqIndex(qs) ==
    IF GroqQueryAvailable(qs)
        THEN Some(CHOOSE i \in DOMAIN qs :
                    qs[i].method = "groq" /\ \A j \in 1..(i - 1) : qs[j].method # "groq")
        ELSE None
\* variant: no slot is reserved
BaseBeforeGroqCapUnreserved(cfg, qs) == MaxTotal(cfg)

BaseBeforeGroqCap(cfg, qs) == MaxTotal(cfg) - ReserveForGroq(cfg, qs)

\* variant: no query counts as issued before the first groq query
BeforeGroqIgnored(qs, qidx) == FALSE

\* match_method == "base" and first_groq_index is not None and qi < first_groq_index
BeforeGroq(qs, qidx) ==
    /\ qs[qidx].method = "base"
    /\ FirstGroqIndex(qs) # None
    /\ qidx < FirstGroqIndex(qs)[1]

\* the `for item in items` loop of one page; st holds the locals it updates
RECURSIVE PageLoop(_, _, _, _, _)
PageLoop(items, st, cfg, qs, qidx) ==
    IF items = <<>> THEN st
    ELSE LET opt == ToOp[Head(items)][qs[qidx].method]
             key == IF opt = None THEN "" ELSE UrlKey(opt[1].source_url)
         IN  IF opt = None \/ key = "" \/ key \in st.seen
                THEN PageLoop(Tail(items), st, cfg, qs, qidx)
             ELSE IF BeforeGroq(qs, qidx)
                     /\ st.base_before_groq_count >= BaseBeforeGroqCap(cfg, qs)
                THEN st
             ELSE LET nx == [seen |-> st.seen \cup {key},
                             collected |-> Append(st.collected, opt[1]),
                             added_for_query |-> st.added_for_query + 1,
                             base_before_groq_count |->
                                 IF BeforeGroq(qs, qidx) THEN st.base_before_groq_count + 1
                                 ELSE st.base_before_groq_count,
                             groq_used |-> st.groq_used \/ qs[qidx].method = "groq"]
                  IN  IF Len(nx.collected) >= MaxTotal(cfg) THEN nx
                      ELSE IF nx.added_for_query >= PerQueryCap(cfg, qs) THEN nx
                      ELSE PageLoop(Tail(items), nx, cfg, qs, qidx)

\* `not self._app_id and not self._app_key`
CredentialsBothMissing(cfg) ==
    Strip(cfg.adzuna_app_id) = "" /\ Strip(cfg.adzuna_app_key) = ""

\* not self._app_id or not self._app_key, both stripped by __init__
CredentialsMissing(cfg) == Strip(cfg.adzuna_app_id) = "" \/ Strip(cfg.adzuna_app_key) = ""

\* return collected[:max_total]
FetchReturn(st, cfg) == SliceTo(st.collected, MaxTotal(cfg))

\* ------------------------------------------------------ the pipeline run

VARIABLES
    settings,               \* the process-wide Settings object
    clock,                  \* date.today() and datetime.utcnow()
    pc,                     \* "idle", "expand", "get", "done" or "raised"
    profile,                \* the ProfileSignals of the run
    queries,                \* fetch: the deduplicated (q, method) list
    qi, page,               \* fetch: the request in flight
    loc,                    \* fetch: collected, seen, added_for_query,
                            \*        base_before_groq_count, groq_used
    requests,               \* search requests issued (client.get)
    expander_calls,         \* query_expander calls made
    adzuna_ops,             \* what fetch returned
    result,                 \* the ranked list extract_with_meta returns
    meta,                   \* the diagnostics it returns
    error,                  \* the exception that left extract_with_meta
    cands,                  \* a list of ExtractedOpportunity objects handed to
                            \* score, _dedupe and the ranking stage directly
    nscored,                \* how often score() was applied to each of them
    call,                   \* the last direct call: its arguments and value
    now,                    \* utc_now(), in ticks
    otp_codes,              \* collection otp_codes: email -> document
    verified_emails,        \* collection verified_emails: email -> expiresAt
    users,                  \* collection users: the (email, role) pairs stored
    sheet1,                 \* collection sheet1: the student e-mail addresses
    reqs,                   \* the AuthService calls in progress and their locals
    verified_ok,            \* history: the e-mails a verify_otp call returned for
    otp_log,                \* history, per e-mail: the guesses compared with the
                            \* stored code, the document a send_otp call found,
                            \* and when send_otp last succeeded
    web,                    \* a WebSearchSource.fetch_with_meta call and its locals
    runs,                   \* two extract_with_meta calls on the one extractor
    hist,                   \* the responses each of the two calls was given
    groq                    \* a GroqQueryExpander.expand call and its locals

vars == <<settings, clock, pc, profile, queries, qi, page, loc, requests,
          expander_calls, adzuna_ops, result, meta, error, cands, nscored, call,
          now, otp_codes, verified_emails, users, sheet1, reqs, verified_ok, otp_log,
          web, runs, hist, groq>>

authvars == <<now, otp_codes, verified_emails, users, sheet1, reqs, verified_ok, otp_log>>
services == <<authvars, web, runs, hist, groq>>
direct == <<cands, nscored, call>>

\* no AuthService, WebSearchSource, second run or expander call has begun
ServicesIdle ==
    /\ now = 0
    /\ otp_codes = <<>>
    /\ verified_emails = <<>>
    /\ users = {}
    /\ sheet1 = {}
    /\ reqs = <<>>
    /\ verified_ok = {}
    /\ otp_log = <<>>
    /\ web = <<>>
    /\ runs = <<>>
    /\ hist = <<>>
    /\ groq = <<>>

pipeline == <<pc, queries, qi, page, loc, requests, expander_calls, adzuna_ops,
              result, meta, error>>

NoProfile == Profile("", <<>>, <<>>)
Locals0 ==
    [seen |-> {}, collected |-> <<>>, added_for_query |-> 0,
     base_before_groq_count |-> 0, groq_used |-> FALSE]

\* no run of extract_with_meta has begun
Idle ==
    /\ pc = "idle"
    /\ queries = <<>>
    /\ qi = 0
    /\ page = 0
    /\ loc = Locals0
    /\ requests = 0
    /\ expander_calls = 0
    /\ adzuna_ops = <<>>
    /\ result = <<>>
    /\ meta = None
    /\ error = None

Init ==
    /\ settings \in SettingsSet
    /\ clock \in Clocks
    /\ profile = NoProfile
    /\ Idle
    /\ cands = <<>>
    /\ nscored = <<>>
    /\ call = None
    /\ ServicesIdle

\* self._groq: GroqQueryExpander.from_settings() is None without an API key
ExpanderConfigured == Strip(settings.groq_api_key) # ""

\* fetch enters the query loop: the first request goes out
BeginQueries(prof, expandedQs) ==
    /\ queries' = QueryList(_build_queries(prof), expandedQs)
    /\ qi' = 1
    /\ page' = 1
    /\ loc' = Locals0
    /\ requests' = requests + 1
    /\ pc' = "get"

\* fetch returns ops; extract_with_meta runs to its return statement
Finish(ops, prof) ==
    /\ pc' = "done"
    /\ adzuna_ops' = ops
    /\ result' = Ranked(ops, prof, settings, clock)
    /\ meta' = Some([web |-> web_meta])
    /\ queries' = <<>>
    /\ qi' = 0
    /\ page' = 0
    /\ loc' = Locals0

\* extract_with_meta(profile) up to its first await
Start(prof) ==
    /\ pc = "idle"
    /\ profile' = prof
    /\ IF CredentialsMissing(settings)
          THEN /\ Finish(<<>>, prof)
               /\ UNCHANGED <<requests, expander_calls>>
          ELSE IF ExpanderConfigured
          THEN /\ pc' = "expand"
               /\ expander_calls' = expander_calls + 1
               /\ UNCHANGED <<queries, qi, page, loc, requests, adzuna_ops, result, meta>>
          ELSE /\ BeginQueries(prof, <<>>)
               /\ UNCHANGED <<expander_calls, adzuna_ops, result, meta>>
    /\ UNCHANGED <<settings, clock, error, cands, nscored, call, services>>

\* await self._query_expander(profile) returns a list
ExpanderReturns(qs) ==
    /\ pc = "expand"
    /\ BeginQueries(profile, qs)
    /\ UNCHANGED <<settings, clock, profile, expander_calls, adzuna_ops, result, meta, error,
                   cands, nscored, call, services>>

\* ... or raises, which fetch catches: expanded = []
ExpanderRaises ==
    /\ pc = "expand"
    /\ BeginQueries(profile, <<>>)
    /\ UNCHANGED <<settings, clock, profile, expander_calls, adzuna_ops, result, meta, error,
                   cands, nscored, call, services>>

\* client.get raises (timeout), raise_for_status raises (HTTP error status) or
\* resp.json() raises (malformed body): neither fetch nor extract_with_meta
\* catches it, and their frames are gone
GetFails(kind) ==
    /\ pc = "get"
    /\ pc' = "raised"
    /\ error' = Some(kind)
    /\ queries' = <<>>
    /\ qi' = 0
    /\ page' = 0
    /\ loc' = Locals0
    /\ UNCHANGED <<settings, clock, profile, requests, expander_calls, adzuna_ops, result, meta,
                   cands, nscored, call, services>>

\* a page arrives: the rest of the loop body, up to the next request or the return
GetReturns(items) ==
    LET st == PageLoop(items, loc, settings, queries, qi)
        full == Len(st.collected) >= MaxTotal(settings)
        stop_paging ==
            \/ items = <<>>
            \/ full
            \/ st.added_for_query >= PerQueryCap(settings, queries)
            \/ page = max_pages
        stop_all ==
            \/ full /\ (~GroqQueryAvailable(queries) \/ st.groq_used)
            \/ qi = Len(queries)
    IN  /\ pc = "get"
        /\ IF ~stop_paging
              THEN /\ page' = page + 1
                   /\ loc' = st
                   /\ requests' = requests + 1
                   /\ UNCHANGED <<pc, queries, qi, adzuna_ops, result, meta>>
              ELSE IF ~stop_all
              THEN /\ qi' = qi + 1
                   /\ page' = 1
                   /\ loc' = [st EXCEPT !.added_for_query = 0]
                   /\ requests' = requests + 1
                   /\ UNCHANGED <<pc, queries, adzuna_ops, result, meta>>
              ELSE /\ Finish(FetchReturn(st, settings), profile)
                   /\ UNCHANGED requests
        /\ UNCHANGED <<settings, clock, profile, expander_calls, error, cands, nscored, call, services>>

Next ==
    \/ \E prof \in Profiles : Start(prof)
    \/ \E qs \in ExpanderOutputs : ExpanderReturns(qs)
    \/ ExpanderRaises
    \/ \E kind \in {"status", "timeout", "malformed"} : GetFails(kind)
    \/ \E items \in Pages : GetReturns(items)

Spec == Init /\ [][Next]_vars

\* ---------------------------------- score, _dedupe, ranking, is_active
\* called directly on candidate lists that no single adapter run produces

MaxScoreCands == 2
MaxScoreCalls == 2
MaxCands == 3

Today == NowTicks \div TicksPerDay

Cand(title, company, kind, location, url, published_at, deadline, tags) ==
    [id |-> "feed-" \o url, title |-> title, company |-> company, kind |-> kind,
     location |-> location, source |-> "Feed", source_url |-> url, match_method |-> None,
     published_at |-> published_at, deadline |-> deadline, excerpt |-> "", tags |-> tags,
     score |-> 0, reasons |-> <<>>]

ScoreCands ==
    {Cand("Software Intern - Python", "", "Other", "Chennai, India", "http://j/1",
          None, Some(Today + 10), <<>>),
     Cand("Sr. Lead Intern", "Acme", "Hackathon", "Remote", "http://j/2",
          None, None, <<"C++ Jobs">>),
     Cand("python ml sql react java aws intern", "", "Internship", "", "http://j/3",
          None, Some(Today), <<>>),
     Cand("Staff Nurse", "", "Other", "Pune", "http://j/4", None, None, <<>>),
     Cand("Data Analyst", "", "Full-time", "Pune", "http://j/5", None, None, <<>>)}

ScoreProfiles ==
    {Profile("Computer Science", <<"python", "react">>, <<>>),
     Profile("CSE", <<"Python", "ML", "SQL", "React", "Java", "AWS">>, <<"c++", "acme">>)}

StageCands ==
    {Cand("ML Intern", "", "Internship", "Chennai", "http://j/1", Some(NowTicks), None, <<>>),
     Cand("Data Intern", "", "Other", "Pune", " HTTP://J/1 ", None, Some(Today + 5), <<>>),
     Cand("Web Intern", "", "Other", "", "http://j/1/", None, Some(Today + 1), <<>>),
     Cand("Senior Dev", "", "Other", "Remote", "http://j/2", None, Some(Today), <<>>),
     Cand("Graduate Trainee", "", "Full-time", "Erode", "  ", None, Some(Today + 1), <<>>),
     Cand("Python Dev", "", "Other", "Pune", "http://j/3", None, Some(Today - 1), <<>>),
     Cand("QA Intern", "", "Other", "Salem", "http://j/4", None, Some(Today + 5), <<>>)}

StageSettings ==
    {Settings("id", "key", MaxResults, "IN", TRUE, FALSE, ""),
     Settings("id", "key", MaxResults + 1, " any", FALSE, TRUE, "")}

ListsOf(set, lo, hi) == UNION {[1..n -> set] : n \in lo..hi}

\* candidate objects and a profile, before any score() call
InitScore ==
    /\ settings \in StageSettings
    /\ clock \in Clocks
    /\ profile \in ScoreProfiles
    /\ Idle
    /\ cands \in ListsOf(ScoreCands, 1, MaxScoreCands)
    /\ nscored = [i \in DOMAIN cands |-> 0]
    /\ call = None
    /\ ServicesIdle

\* score(cands[i], profile): assigns score and reasons of that object
ScoreStep(i) ==
    /\ nscored[i] < MaxScoreCalls
    /\ cands' = [cands EXCEPT ![i] = score(cands[i], profile)]
    /\ nscored' = [nscored EXCEPT ![i] = @ + 1]
    /\ UNCHANGED <<settings, clock, profile, call>>
    /\ UNCHANGED <<pipeline, services>>

NextScore == \E i \in DOMAIN cands : ScoreStep(i)

SpecScore == InitScore /\ [][NextScore]_vars

\* the merged adapter output extract_with_meta works on
InitStages ==
    /\ settings \in StageSettings
    /\ clock \in Clocks
    /\ profile \in ScoreProfiles
    /\ Idle
    /\ cands \in ListsOf(StageCands, 0, MaxCands)
    /\ nscored = [i \in DOMAIN cands |-> 0]
    /\ call = None
    /\ ServicesIdle

\* _dedupe(cands), and _dedupe of what it returned
DedupeStep ==
    /\ call = None
    /\ call' = Some([fn |-> "_dedupe", out |-> _dedupe(cands),
                     again |-> _dedupe(_dedupe(cands))])
    /\ UNCHANGED <<settings, clock, profile, cands, nscored>>
    /\ UNCHANGED <<pipeline, services>>

\* lines 96-125 of extract_with_meta with cands as the adapter output
RankStep ==
    /\ call = None
    /\ call' = Some([fn |-> "rank", out |-> Ranked(cands, profile, settings, clock)])
    /\ UNCHANGED <<settings, clock, profile, cands, nscored>>
    /\ UNCHANGED <<pipeline, services>>

NextStages == DedupeStep \/ RankStep

SpecStages == InitStages /\ [][NextStages]_vars

\* the clock readings and arguments is_active is called with
ActiveClocks ==
    {[today |-> d, utcnow |-> t] : d \in {Today, Today + 1}, t \in {NowTicks, NowTicks + 1}}
ActiveDeadlines == {None} \cup {Some(d) : d \in (Today - 1)..(Today + 2)}
ActiveAges == 0..(MaxAgeDays + 1)
ActivePublished ==
    {None} \cup {Some(t) : t \in (NowTicks - TicksPerDay * (MaxAgeDays + 3))..(NowTicks + 1)}

InitIsActive ==
    /\ settings \in StageSettings
    /\ clock \in ActiveClocks
    /\ profile = NoProfile
    /\ Idle
    /\ cands = <<>>
    /\ nscored = <<>>
    /\ call = None
    /\ ServicesIdle

\* is_active(deadline, published_at, max_age_days=...)
IsActiveStep(deadline, published_at, max_age_days) ==
    /\ call = None
    /\ call' = Some([fn |-> "is_active", deadline |-> deadline,
                     published_at |-> published_at, max_age_days |-> max_age_days,
                     value |-> is_active(deadline, published_at, max_age_days,
                                         clock.today, clock.utcnow)])
    /\ UNCHANGED <<settings, clock, profile, cands, nscored>>
    /\ UNCHANGED <<pipeline, services>>

NextIsActive ==
    \E d \in ActiveDeadlines, p \in ActivePublished, m \in ActiveAges : IsActiveStep(d, p, m)

SpecIsActive == InitIsActive /\ [][NextIsActive]_vars

\* ------------------------------------------------------------ properties

\* C1: a failed search request (HTTP error status, timeout, malformed body)
\* does not make extract_with_meta fail: no exception reaches its caller.
\* Spec violates this: GetFails leaves extract_with_meta with the exception.
C1_NoExceptionReachesCaller == pc # "raised" /\ error = None

\* C2: the ranked list extract_with_meta returns never has more than
\* opp_max_results items (opp_max_results is a count: 0 or more).
C2_AtMostN == pc = "done" => Len(result) <= settings.opp_max_results

\* more candidates survive the filters than opp_max_results allows, and the
\* result holds exactly opp_max_results of them
C2_Cut ==
    /\ pc = "done"
    /\ Len(Filtered(_dedupe(adzuna_ops), settings, clock)) > settings.opp_max_results
    /\ Len(result) = settings.opp_max_results

\* C3: every returned item has a non-empty source_url, and no two returned
\* items have the same trimmed, lowercased source_url.
C3_UniqueUrls ==
    pc = "done" =>
        \A i \in DOMAIN result :
            /\ result[i].source_url # ""
            /\ \A j \in DOMAIN result :
                   i # j => Lower(Strip(result[i].source_url)) # Lower(Strip(result[j].source_url))

\* two returned items whose URLs differ by a trailing slash only
C3_SlashDistinct ==
    /\ pc = "done"
    /\ \E i, j \in DOMAIN result : result[j].source_url = result[i].source_url \o "/"

C4_SeniorityPattern ==
    {"senior", "staff", "lead", "principal", "manager", "director", "head", "architect",
     "sr", "sr."}

\* C4: with opp_exclude_senior on, no returned item has a title that matches
\* the seniority pattern.
C4_NoSeniorTitle ==
    (pc = "done" /\ settings.opp_exclude_senior) =>
        \A i \in DOMAIN result : ~SearchWord(result[i].title, C4_SeniorityPattern)

\* the adapter delivered a senior-titled record that passes every other
\* filter, next to records that are returned
C4_SeniorDropped ==
    /\ pc = "done"
    /\ settings.opp_exclude_senior
    /\ result # <<>>
    /\ \E i \in DOMAIN adzuna_ops :
           /\ SearchWord(adzuna_ops[i].title, C4_SeniorityPattern)
           /\ \A j \in 1..(i - 1) :
                  Lower(Strip(adzuna_ops[j].source_url)) # Lower(Strip(adzuna_ops[i].source_url))
           /\ PassRegion(adzuna_ops[i], settings)
           /\ PassClosed(adzuna_ops[i])
           /\ PassActive(adzuna_ops[i], settings, clock)
           /\ PassRemote(adzuna_ops[i], settings)

\* C10: with an empty app_id or app_key, fetch returns [] without a search
\* request and without an expander call, and extract_with_meta returns an
\* empty list and its diagnostics, not an exception.
C10_NoCredentialsNoRequest ==
    (pc # "idle" /\ (settings.adzuna_app_id = "" \/ settings.adzuna_app_key = "")) =>
        /\ pc = "done"
        /\ requests = 0
        /\ expander_calls = 0
        /\ adzuna_ops = <<>>
        /\ result = <<>>
        /\ meta # None
        /\ error = None

\* a run with one credential empty, the other set and the expander configured
C10_EmptyIdRun ==
    /\ pc = "done"
    /\ settings.adzuna_app_id = ""
    /\ settings.adzuna_app_key # ""
    /\ settings.groq_api_key # ""
    /\ profile # NoProfile
    /\ result = <<>>

\* C5: is_active is true exactly when a deadline is present and not before
\* today, or no deadline is present, a publish timestamp is present and its
\* age in whole days is at most max_age_days; with the boundary cases spelt out.
C5_IsActiveExactly ==
    (call # None /\ call[1].fn = "is_active") =>
        LET c == call[1]
            has_deadline == c.deadline # None
            has_published == c.published_at # None
            age == (clock.utcnow - c.published_at[1]) \div TicksPerDay
        IN  /\ c.value <=> \/ has_deadline /\ c.deadline[1] >= clock.today
                           \/ ~has_deadline /\ has_published /\ age <= c.max_age_days
            /\ c.deadline = Some(clock.today) => c.value
            /\ c.deadline = Some(clock.today - 1) => ~c.value
            /\ (~has_deadline /\ has_published /\ age = c.max_age_days) => c.value
            /\ (~has_deadline /\ has_published /\ age = c.max_age_days + 1) => ~c.value
            /\ (~has_deadline /\ ~has_published) => ~c.value

\* is_active was called with yesterday's deadline and a publish timestamp of
\* this instant, and answered False
C5_PastDeadlinePublishedNow ==
    /\ call # None
    /\ call[1].fn = "is_active"
    /\ call[1].deadline = Some(clock.today - 1)
    /\ call[1].published_at = Some(clock.utcnow)
    /\ call[1].max_age_days >= 1
    /\ ~call[1].value

\* C6: the returned list is in descending order of (score, deadline or the
\* maximal date): of two items the earlier has the higher score, or the same
\* score and a deadline key at least as large; so at equal score items
\* without a deadline precede items with one, and later deadlines precede
\* earlier ones.
C6_Ordered ==
    (call # None /\ call[1].fn = "rank") =>
        LET out == call[1].out
            key(op) == IF op.deadline = None THEN DateMax ELSE op.deadline[1]
        IN  \A i, j \in DOMAIN out :
                i < j =>
                    /\ \/ out[i].score > out[j].score
                       \/ out[i].score = out[j].score /\ key(out[i]) >= key(out[j])
                    /\ (out[i].score = out[j].score /\ out[j].deadline = None)
                           => out[i].deadline = None
                    /\ (/\ out[i].score = out[j].score
                        /\ out[i].deadline # None
                        /\ out[j].deadline # None) => out[i].deadline[1] >= out[j].deadline[1]

\* three returned items of one score: none, a later and an earlier deadline,
\* handed in in another order
C6_TieOnDeadline ==
    /\ call # None
    /\ call[1].fn = "rank"
    /\ Len(call[1].out) = 3
    /\ call[1].out[1].score = call[1].out[3].score
    /\ call[1].out[1].deadline = None
    /\ call[1].out[2].deadline # None
    /\ call[1].out[3].deadline # None
    /\ call[1].out[2].deadline[1] > call[1].out[3].deadline[1]
    /\ cands[1].deadline # None

\* C7: _dedupe(_dedupe(xs)) = _dedupe(xs), and _dedupe(xs) is, in input
\* order, the first record of every canonical URL in xs (a record whose URL
\* is blank carries no canonical URL and is not kept).
C7_FirstKeptInOrder ==
    (call # None /\ call[1].fn = "_dedupe") =>
        LET out == call[1].out
            url(i) == Lower(Strip(cands[i].source_url))
            first == {i \in DOMAIN cands : url(i) # "" /\ \A j \in 1..(i - 1) : url(j) # url(i)}
            nth(k) == CHOOSE i \in first : Cardinality({j \in first : j <= i}) = k
        IN  /\ call[1].again = out
            /\ Len(out) = Cardinality(first)
            /\ \A k \in DOMAIN out : out[k] = cands[nth(k)]

\* the input holds a record, then another record with the same canonical
\* URL written differently, then a record with a new URL
C7_LaterDuplicateDropped ==
    /\ call # None
    /\ call[1].fn = "_dedupe"
    /\ Len(cands) = 3
    /\ cands[1].source_url # cands[2].source_url
    /\ cands[1].title # cands[2].title
    /\ Lower(Strip(cands[1].source_url)) = Lower(Strip(cands[2].source_url))
    /\ call[1].out = <<cands[1], cands[3]>>

\* C8: score applied again to a record it has scored leaves score and
\* reasons as they are, whatever was scored in between; every score call
\* leaves the other fields of every candidate, and the profile, unchanged.
C8_ScoreIdempotent ==
    [][/\ profile' = profile
       /\ DOMAIN cands' = DOMAIN cands
       /\ \A i \in DOMAIN cands :
              /\ nscored[i] >= 1 =>
                     /\ cands'[i].score = cands[i].score
                     /\ cands'[i].reasons = cands[i].reasons
              /\ [cands'[i] EXCEPT !.score = 0, !.reasons = <<>>]
                     = [cands[i] EXCEPT !.score = 0, !.reasons = <<>>]]_vars

\* a candidate scored twice, with reasons, and another one scored as well
C8_ScoredTwice ==
    /\ Len(cands) = 2
    /\ nscored[1] = 2
    /\ nscored[2] >= 1
    /\ cands[1].reasons # <<>>
    /\ cands[1].score # 0
    /\ cands[1] # cands[2]

C9_Fresher == {"intern", "fresher", "graduate", "entry", "junior"}
C9_Senior == {"staff", "principal", "sr", "senior", "lead", "manager", "director"}
C9_Label(reason) ==
    IF Len(reason) >= 13 /\ SubSeq(reason, 1, 13) = "keyword match" THEN "keyword match"
    ELSE reason

\* C9: score (in tenths) is min(60, 12 x shared tokens) + 10 for kind
\* Internship or Hackathon + 8 for a fresher keyword in the title - 15 for a
\* seniority keyword in the title + 10 for a deadline, the last four terms
\* applied independently; reasons lists, in this order, the keyword match,
\* the fresher, the seniority and the deadline term that applied; the score
\* lies between -15 and 88.
C9_ScoreIsSumOfTerms ==
    \A i \in DOMAIN cands :
        nscored[i] >= 1 =>
            LET c == cands[i]
                shared == Cardinality(
                    _tokenize(<<c.title, c.company, c.location>> \o c.tags)
                        \cap _tokenize(<<profile.department>> \o profile.skills
                                           \o profile.interests))
                fresher == \E w \in C9_Fresher : Contains(Lower(c.title), w)
                senior == \E w \in C9_Senior : Contains(Lower(c.title), w)
            IN  /\ c.score = (IF 12 * shared < 60 THEN 12 * shared ELSE 60)
                               + (IF c.kind \in {"Internship", "Hackathon"} THEN 10 ELSE 0)
                               + (IF fresher THEN 8 ELSE 0)
                               - (IF senior THEN 15 ELSE 0)
                               + (IF c.deadline # None THEN 10 ELSE 0)
                /\ [k \in DOMAIN c.reasons |-> C9_Label(c.reasons[k])]
                       = (IF shared > 0 THEN <<"keyword match">> ELSE <<>>)
                         \o (IF fresher THEN <<"fresher/intern friendly">> ELSE <<>>)
                         \o (IF senior THEN <<"seniority down-rank">> ELSE <<>>)
                         \o (IF c.deadline # None THEN <<"has deadline">> ELSE <<>>)
                /\ c.score >= -15
                /\ c.score <= 88

\* one scored candidate whose title holds a fresher and a seniority keyword
\* and carries both reasons, next to one at the top score
C9_BothKeywordsAndExtremes ==
    /\ \E i \in DOMAIN cands :
           /\ nscored[i] >= 1
           /\ Contains(Lower(cands[i].title), "intern")
           /\ Contains(Lower(cands[i].title), "lead")
           /\ \E a, b \in DOMAIN cands[i].reasons :
                  /\ a < b
                  /\ cands[i].reasons[a] = "fresher/intern friendly"
                  /\ cands[i].reasons[b] = "seniority down-rank"
    /\ \E i \in DOMAIN cands : nscored[i] >= 1 /\ cands[i].score = 88

\* ------------------------------------------- sources/web_search.py: meta

\* WebSearchSource._provider
WebProvider(cfg) ==
    Lower(Strip(IF cfg.web_search_provider # "" THEN cfg.web_search_provider ELSE "none"))

\* WebSearchSource._enabled
WebEnabled(cfg) ==
    IF WebProvider(cfg) = "serpapi" THEN Strip(cfg.serpapi_api_key) # ""
    ELSE IF WebProvider(cfg) = "google_cse"
        THEN Strip(cfg.google_cse_api_key) # "" /\ Strip(cfg.google_cse_cx) # ""
    ELSE FALSE

\* C11: the diagnostics extract_with_meta returns have web.enabled true
\* exactly when a provider is selected and its credentials are set, and then
\* web.provider names it; web.used and web.error tell of an attempted and of
\* a failed web-search call (extract_with_meta attempts none).
\* Spec violates this: web_meta is a literal with enabled False, provider None.
C11_WebMetaReflectsSettings ==
    pc = "done" =>
        /\ meta[1].web.enabled <=> WebEnabled(settings)
        /\ WebProvider(settings) # "none" => meta[1].web.provider = Some(WebProvider(settings))
        /\ ~meta[1].web.used
        /\ meta[1].web.error = None

\* ------------------------------------------- auth_service.py, database/repositories.py

\* Times are ticks.  The Settings fields of the OTP flow and the two
\* durations the code writes as literals (an hour of send history, the
\* quarter of an hour a verification lasts):
OtpTtl == 2
MinResend == 1
MaxSends == 2
HourTicks == 3
VerifiedTtl == 3
MaxVerifyAttempts == 5
MaxTime == 3
MaxCalls == 1

Emails == {"a@kongu.edu", "b@kongu.edu"}
\* the address whose owner asks for codes and types them
OtpEmails == {"a@kongu.edu"}
Roles == {"student", "event_manager", "alumni"}
\* what _gen_otp may draw, and what a caller may type
OtpCodes == {"000042"}
OtpInputs == {" 000042", "123456"}

AuthSettings(provider) ==
    [otp_ttl_seconds |-> OtpTtl, otp_min_resend_seconds |-> MinResend,
     otp_max_sends_per_hour |-> MaxSends, otp_provider |-> provider]

\* the process between two calls, with the call that ended on it last and
\* how it ended ("ok" returned, "raised")
Returned(op, email, how) == [op |-> "idle", last |-> op, email |-> email, ret |-> how]
NoCallYet == [op |-> "idle", last |-> "", email |-> "", ret |-> ""]

InitAuth ==
    /\ settings \in {AuthSettings(p) : p \in {"console", "SMTP", "sms"}}
    /\ clock = [today |-> Today, utcnow |-> NowTicks]
    /\ profile = NoProfile
    /\ Idle
    /\ cands = <<>> /\ nscored = <<>> /\ call = None
    /\ now = 0
    /\ otp_codes = [e \in Emails |-> None]
    /\ verified_emails = [e \in Emails |-> None]
    /\ users = {}
    /\ sheet1 \in {{}, {"a@kongu.edu"}, {"b@kongu.edu"}}
    /\ reqs = [k \in 1..MaxCalls |-> NoCallYet]
    /\ verified_ok = {}
    /\ otp_log = <<>>
    /\ web = <<>> /\ runs = <<>> /\ hist = <<>> /\ groq = <<>>

AuthRest == <<settings, clock, profile, pipeline, direct, web, runs, hist, groq>>

\* send_otp: the timestamps of the last hour
RecentSends(existing, t) ==
    IF existing = None THEN <<>>
    ELSE SelectSeq(existing[1].sendTimestamps, LAMBDA s : t - s < HourTicks)

\* send_otp: the resend interval and the hourly window
SendRefused(existing, t) ==
    /\ existing # None
    /\ \/ t - existing[1].lastSentAt < settings.otp_min_resend_seconds
       \/ Len(RecentSends(existing, t)) >= settings.otp_max_sends_per_hour

\* send_otp up to its upsert: now, the stored document, the two limits, the
\* new code and document
send_otp_get(k, email, otp) ==
    /\ reqs[k].op = "idle"
    /\ LET existing == otp_codes[email] IN
       reqs' = [reqs EXCEPT ![k] =
           IF SendRefused(existing, now) THEN Returned("send_otp", email, "raised")
           ELSE [op |-> "send_otp", pc |-> "upsert", email |-> email,
                 doc |-> [otp |-> otp, createdAt |-> now,
                          expiresAt |-> now + settings.otp_ttl_seconds,
                          lastSentAt |-> now,
                          sendTimestamps |-> Append(RecentSends(existing, now), now),
                          verifyAttempts |-> 0]]]
    /\ UNCHANGED <<now, otp_codes, verified_emails, users, sheet1, verified_ok, AuthRest>>

\* send_otp: the upsert, then the provider
send_otp_upsert(k) ==
    /\ reqs[k].op = "send_otp" /\ reqs[k].pc = "upsert"
    /\ otp_codes' = [otp_codes EXCEPT ![reqs[k].email] = Some(reqs[k].doc)]
    /\ reqs' = [reqs EXCEPT ![k] =
           IF Lower(settings.otp_provider) = "console" THEN Returned("send_otp", @.email, "ok")
           ELSE IF Lower(settings.otp_provider) = "smtp" THEN [@ EXCEPT !.pc = "smtp"]
           ELSE Returned("send_otp", @.email, "raised")]
    /\ UNCHANGED <<now, verified_emails, users, sheet1, verified_ok, AuthRest>>

\* send_otp: send_email_otp returns or raises
send_otp_smtp(k, sent) ==
    /\ reqs[k].op = "send_otp" /\ reqs[k].pc = "smtp"
    /\ reqs' = [reqs EXCEPT ![k] =
           Returned("send_otp", @.email, IF sent THEN "ok" ELSE "raised")]
    /\ UNCHANGED <<now, otp_codes, verified_emails, users, sheet1, verified_ok, AuthRest>>

\* verify_otp up to its first write: the stored document, expiry, the
\* attempt count, the comparison
verify_otp_get(k, email, otp) ==
    /\ reqs[k].op = "idle"
    /\ reqs' = [reqs EXCEPT ![k] =
           IF otp_codes[email] = None THEN Returned("verify_otp", email, "raised")
           ELSE LET doc == otp_codes[email][1]
                    attempts == doc.verifyAttempts + 1
                IN  [op |-> "verify_otp", email |-> email, otp |-> otp, doc |-> doc,
                     pc |-> IF doc.expiresAt <= now THEN "delete_expired"
                            ELSE IF attempts > MaxVerifyAttempts THEN "delete_attempts"
                            ELSE IF Strip(otp) # doc.otp THEN "upsert"
                            ELSE "delete"]]
    /\ UNCHANGED <<now, otp_codes, verified_emails, users, sheet1, verified_ok, AuthRest>>

\* verify_otp: the delete or the upsert it awaits next
verify_otp_write(k) ==
    /\ reqs[k].op = "verify_otp"
    /\ reqs[k].pc \in {"delete_expired", "delete_attempts", "upsert", "delete"}
    /\ otp_codes' = [otp_codes EXCEPT ![reqs[k].email] =
           IF reqs[k].pc = "upsert"
           THEN Some([reqs[k].doc EXCEPT !.verifyAttempts = @ + 1])
           ELSE None]
    /\ reqs' = [reqs EXCEPT ![k] =
           IF reqs[k].pc = "delete" THEN [@ EXCEPT !.pc = "mark_verified"]
           ELSE Returned("verify_otp", @.email, "raised")]
    /\ UNCHANGED <<now, verified_emails, users, sheet1, verified_ok, AuthRest>>

\* verify_otp: mark_verified, and the call returns
verify_otp_mark(k) ==
    /\ reqs[k].op = "verify_otp" /\ reqs[k].pc = "mark_verified"
    /\ verified_emails' = [verified_emails EXCEPT ![reqs[k].email] = Some(now + VerifiedTtl)]
    /\ verified_ok' = verified_ok \cup {reqs[k].email}
    /\ reqs' = [reqs EXCEPT ![k] = Returned("verify_otp", @.email, "ok")]
    /\ UNCHANGED <<now, otp_codes, users, sheet1, AuthRest>>

\* StudentEmailRepository.has_data; counted tells whether the count query
\* answered (an exception reads as no data)
has_data(counted) == counted /\ sheet1 # {}

\* StudentEmailRepository.is_valid_student_email; found likewise
is_valid_student_email(email, found) == found /\ email \in sheet1

\* variant: only the role student is checked against sheet1
NotAuthorizedStudentOnly(email, role, counted, found) ==
    /\ role = "student"
    /\ has_data(counted)
    /\ ~is_valid_student_email(email, found)

\* register: the check against sheet1
NotAuthorized(email, role, counted, found) ==
    /\ role \in {"student", "event_manager"}
    /\ has_data(counted)
    /\ ~is_valid_student_email(email, found)

\* variant: register without the is_verified test
register_check_unverified(k, email, role, counted, found) ==
    /\ reqs[k].op = "idle"
    /\ reqs' = [reqs EXCEPT ![k] =
           IF NotAuthorized(email, role, counted, found)
               THEN Returned("register", email, "raised")
           ELSE [op |-> "register", pc |-> "find", email |-> email, role |-> role]]
    /\ UNCHANGED <<now, otp_codes, verified_emails, users, sheet1, verified_ok, AuthRest>>

\* register up to find_by_email_and_role: is_verified, then the sheet1 check
register_check(k, email, role, counted, found) ==
    /\ reqs[k].op = "idle"
    /\ reqs' = [reqs EXCEPT ![k] =
           IF verified_emails[email] = None THEN Returned("register", email, "raised")
           ELSE IF NotAuthorized(email, role, counted, found)
               THEN Returned("register", email, "raised")
           ELSE [op |-> "register", pc |-> "find", email |-> email, role |-> role]]
    /\ UNCHANGED <<now, otp_codes, verified_emails, users, sheet1, verified_ok, AuthRest>>

\* UserRepository._role_filter on the stored (email, role) pairs
RoleFilter(email, role) ==
    {u \in users : u.email = email /\ u.role = Lower(Strip(IF role = "" THEN "student" ELSE role))}

\* register: find_by_email_and_role, then _pwd.hash (hashed: it returned
\* rather than raised PasswordSizeError)
register_find(k, hashed) ==
    /\ reqs[k].op = "register" /\ reqs[k].pc = "find"
    /\ reqs' = [reqs EXCEPT ![k] =
           IF RoleFilter(reqs[k].email, reqs[k].role) # {}
               THEN Returned("register", @.email, "raised")
           ELSE IF ~hashed THEN Returned("register", @.email, "raised")
           ELSE [@ EXCEPT !.pc = "create"]]
    /\ UNCHANGED <<now, otp_codes, verified_emails, users, sheet1, verified_ok, AuthRest>>

\* register: user_repo.create under the unique (email, role) index
register_create(k) ==
    /\ reqs[k].op = "register" /\ reqs[k].pc = "create"
    /\ LET user == [email |-> reqs[k].email, role |-> reqs[k].role] IN
       IF user \in users
       THEN /\ reqs' = [reqs EXCEPT ![k] = Returned("register", @.email, "raised")]
            /\ UNCHANGED users
       ELSE /\ reqs' = [reqs EXCEPT ![k] = Returned("register", @.email, "ok")]
            /\ users' = users \cup {user}
    /\ UNCHANGED <<now, otp_codes, verified_emails, sheet1, verified_ok, AuthRest>>

\* the TTL indexes on expiresAt: the server drops an expired document
ExpireDocument(email) ==
    /\ \/ /\ otp_codes[email] # None /\ otp_codes[email][1].expiresAt <= now
          /\ otp_codes' = [otp_codes EXCEPT ![email] = None]
          /\ UNCHANGED verified_emails
       \/ /\ verified_emails[email] # None /\ verified_emails[email][1] <= now
          /\ verified_emails' = [verified_emails EXCEPT ![email] = None]
          /\ UNCHANGED otp_codes
    /\ UNCHANGED <<now, users, sheet1, reqs, verified_ok, AuthRest>>

\* utc_now() advances
Tick ==
    /\ now < MaxTime
    /\ now' = now + 1
    /\ UNCHANGED <<otp_codes, verified_emails, users, sheet1, reqs, verified_ok, AuthRest>>

\* the history otp_log is not kept under this specification
NextAuth ==
    \/ \E k \in DOMAIN reqs :
         \/ \E email \in OtpEmails, otp \in OtpCodes :
                send_otp_get(k, email, otp) /\ UNCHANGED otp_log
         \/ send_otp_upsert(k) /\ UNCHANGED otp_log
         \/ \E sent \in BOOLEAN : send_otp_smtp(k, sent) /\ UNCHANGED otp_log
         \/ \E email \in OtpEmails, otp \in OtpInputs :
                verify_otp_get(k, email, otp) /\ UNCHANGED otp_log
         \/ verify_otp_write(k) /\ UNCHANGED otp_log
         \/ verify_otp_mark(k) /\ UNCHANGED otp_log
         \/ \E email \in Emails, role \in Roles, counted, found \in BOOLEAN :
                register_check(k, email, role, counted, found) /\ UNCHANGED otp_log
         \/ \E hashed \in BOOLEAN : register_find(k, hashed) /\ UNCHANGED otp_log
         \/ register_create(k) /\ UNCHANGED otp_log
    \/ \E email \in Emails : ExpireDocument(email) /\ UNCHANGED otp_log
    \/ Tick /\ UNCHANGED otp_log

SpecAuth == InitAuth /\ [][NextAuth]_vars

\* ------------------------------------------- properties of SpecAuth

\* a step of call k that ends it the way `how`
Ends(k, op, how) ==
    /\ reqs'[k].op = "idle" /\ reqs'[k] # reqs[k]
    /\ reqs'[k].last = op /\ reqs'[k].ret = how

\* C12: registration is gated by OTP verification.  A user record exists only
\* for an e-mail an earlier verify_otp returned for; a record is created only
\* by a register call that found the verified mark; register for an e-mail no
\* verify_otp ever returned for raises and creates nothing; a verify_otp that
\* raises (no code stored, code expired, too many attempts, wrong code) sets
\* no verified mark, and a mark is set only by a call that compared the typed
\* code equal to the stored one.
C12_RegistrationGatedByOtp ==
    /\ [](\A u \in users : u.email \in verified_ok)
    /\ [][\A k \in DOMAIN reqs :
            /\ (reqs[k].op = "idle" /\ reqs'[k].op = "register")
                   => verified_emails[reqs'[k].email] # None
            /\ (reqs'[k].op = "idle" /\ reqs'[k] # reqs[k] /\ reqs'[k].last = "register"
                    /\ reqs'[k].email \notin verified_ok)
                   => reqs'[k].ret = "raised" /\ users' = users
            /\ Ends(k, "verify_otp", "raised") => verified_emails' = verified_emails
         ]_vars
    /\ [][users' # users =>
            \E k \in DOMAIN reqs :
                /\ Ends(k, "register", "ok")
                /\ users' = users \cup {[email |-> reqs[k].email, role |-> reqs[k].role]}
         ]_vars
    /\ [][\A e \in Emails :
            (verified_emails'[e] # verified_emails[e] /\ verified_emails'[e] # None) =>
                \E k \in DOMAIN reqs :
                    /\ Ends(k, "verify_otp", "ok")
                    /\ reqs[k].email = e
                    /\ Strip(reqs[k].otp) = reqs[k].doc.otp
         ]_vars

\* a record exists for an e-mail whose verified mark has expired since
C12_RegisteredAfterVerification ==
    /\ \E u \in users : verified_emails[u.email] = None /\ u.email \in verified_ok
    /\ \E k \in DOMAIN reqs :
           reqs[k] = Returned("register", "b@kongu.edu", "raised")

\* the roles register checks against sheet1
CheckedRoles == {"student", "event_manager"}

\* C13 as stated: for the roles student and event_manager no user record
\* is created for an e-mail that is not in sheet1, and a register call
\* for a verified e-mail that is in sheet1 and has no user of that role does
\* not raise.  SpecAuth violates the first part with sheet1 empty (and the
\* second with a password the hasher refuses).
C13_RejectedWheneverAbsent ==
    /\ [](\A u \in users : u.role \in CheckedRoles => u.email \in sheet1)
    /\ [][\A k \in DOMAIN reqs :
            (/\ reqs[k].op = "register"
             /\ reqs[k].role \in CheckedRoles
             /\ reqs[k].email \in sheet1
             /\ RoleFilter(reqs[k].email, reqs[k].role) = {})
            => ~Ends(k, "register", "raised")
         ]_vars

\* C13, amended: for the roles student and event_manager register raises
\* and creates no record whenever has_data reports data and the lookup does
\* not find the e-mail, verified or not; with the verified mark present and
\* the e-mail found the call goes on; it then reaches the insert when no
\* user of that e-mail and role is stored and the hasher accepts the
\* password, and the insert of a pair not yet stored succeeds.
C13_RejectedWhenDataLacksEmail ==
    /\ [][\A k \in DOMAIN reqs, email \in Emails, role \in CheckedRoles,
            counted \in BOOLEAN, found \in BOOLEAN :
            register_check(k, email, role, counted, found) =>
                /\ (counted /\ sheet1 # {} /\ ~(found /\ email \in sheet1))
                       => /\ reqs'[k] = Returned("register", email, "raised")
                          /\ users' = users
                /\ (verified_emails[email] # None /\ found /\ email \in sheet1)
                       => reqs'[k].op = "register"
         ]_vars
    /\ [][\A k \in DOMAIN reqs :
            /\ (/\ register_find(k, TRUE)
                /\ \A u \in users : ~(u.email = reqs[k].email /\ u.role = reqs[k].role))
                   => reqs'[k].op = "register"
            /\ (/\ register_create(k)
                /\ [email |-> reqs[k].email, role |-> reqs[k].role] \notin users)
                   => /\ Ends(k, "register", "ok")
                      /\ [email |-> reqs[k].email, role |-> reqs[k].role] \in users'
         ]_vars

\* register for a verified address that a loaded sheet1 lacks was refused
C13_VerifiedButNotListed ==
    /\ sheet1 = {"b@kongu.edu"}
    /\ verified_emails["a@kongu.edu"] # None
    /\ users = {}
    /\ \E k \in DOMAIN reqs : reqs[k] = Returned("register", "a@kongu.edu", "raised")

\* ------------------------------------------- two runs on the one extractor

TwoRunSettings ==
    {Settings("id", "key", MaxResults, "IN", TRUE, TRUE, "gk"),
     Settings("id", "key", 1, " any", FALSE, FALSE, ""),
     Settings("", "key", 1, "IN", TRUE, TRUE, "")}
TwoRunPages == {<<>>, <<ItemA>>, <<ItemF, ItemD, ItemB, ItemC>>}
\* answers recorded per run
MaxResponses == 3

\* the frames of the coroutine that is running: extract_with_meta's and
\* fetch's locals and what the run has returned or raised
RunFrame ==
    [pc |-> pc, profile |-> profile, queries |-> queries, qi |-> qi, page |-> page,
     loc |-> loc, requests |-> requests, expander_calls |-> expander_calls,
     adzuna_ops |-> adzuna_ops, result |-> result, meta |-> meta, error |-> error]

IdleFrame ==
    [pc |-> "idle", profile |-> NoProfile, queries |-> <<>>, qi |-> 0, page |-> 0,
     loc |-> Locals0, requests |-> 0, expander_calls |-> 0,
     adzuna_ops |-> <<>>, result |-> <<>>, meta |-> None, error |-> None]

InitTwoRuns ==
    /\ settings \in TwoRunSettings
    /\ clock \in Clocks
    /\ profile = NoProfile
    /\ Idle
    /\ cands = <<>> /\ nscored = <<>> /\ call = None
    /\ now = 0 /\ otp_codes = <<>> /\ verified_emails = <<>> /\ users = {}
    /\ sheet1 = {} /\ reqs = <<>> /\ verified_ok = {} /\ otp_log = <<>>
    /\ web = <<>> /\ groq = <<>>
    /\ runs = [active |-> 1, other |-> IdleFrame]
    /\ hist = [r \in 1..2 |-> <<>>]

\* the frame of run r: on the loop, or suspended
FrameOf(r) == IF r = runs.active THEN RunFrame ELSE runs.other

\* the responses run f has taken in
Consumed(f) ==
    f.requests + f.expander_calls - (IF f.pc \in {"expand", "get"} THEN 1 ELSE 0)

\* variant: collected, seen and the counters are kept on the source object
ResumedLocalsShared(f) == loc

\* collected, seen and the counters are locals of the fetch call
ResumedLocals(f) == f.loc

\* the event loop suspends the running coroutine at its await and resumes
\* the other one
Switch ==
    /\ runs' = [active |-> 3 - runs.active, other |-> RunFrame]
    /\ pc' = runs.other.pc
    /\ profile' = runs.other.profile
    /\ queries' = runs.other.queries
    /\ qi' = runs.other.qi
    /\ page' = runs.other.page
    /\ loc' = ResumedLocals(runs.other)
    /\ requests' = runs.other.requests
    /\ expander_calls' = runs.other.expander_calls
    /\ adzuna_ops' = runs.other.adzuna_ops
    /\ result' = runs.other.result
    /\ meta' = runs.other.meta
    /\ error' = runs.other.error
    /\ UNCHANGED <<settings, clock, direct, authvars, web, hist, groq>>

\* the expander or the provider answers the request run r is waiting on
Respond(r, resp) ==
    /\ FrameOf(r).pc \in {"expand", "get"}
    /\ Len(hist[r]) = Consumed(FrameOf(r))
    /\ Len(hist[r]) < MaxResponses
    /\ resp.kind \in (IF FrameOf(r).pc = "expand" THEN {"queries", "expander_raised"}
                      ELSE {"page", "raised"})
    /\ hist' = [hist EXCEPT ![r] = Append(@, resp)]
    /\ UNCHANGED <<settings, clock, profile, pipeline, direct, authvars, web, runs, groq>>

\* the running coroutine takes in the answer it awaited
Resume ==
    /\ Len(hist[runs.active]) > Consumed(RunFrame)
    /\ LET resp == hist[runs.active][Len(hist[runs.active])] IN
        \/ resp.kind = "queries" /\ ExpanderReturns(resp.val)
        \/ resp.kind = "expander_raised" /\ ExpanderRaises
        \/ resp.kind = "page" /\ GetReturns(resp.val)
        \/ resp.kind = "raised" /\ GetFails(resp.val)

Responses ==
    {[kind |-> "queries", val |-> <<"ml intern">>], [kind |-> "expander_raised", val |-> <<>>],
     [kind |-> "raised", val |-> "status"]}
    \cup {[kind |-> "page", val |-> items] : items \in TwoRunPages}

NextTwoRuns ==
    \/ \E prof \in Profiles : Start(prof)
    \/ \E r \in 1..2, resp \in Responses : Respond(r, resp)
    \/ Resume
    \/ Switch

SpecTwoRuns == InitTwoRuns /\ [][NextTwoRuns]_vars

\* extract_with_meta(prof) run on its own from frame f, given the answers rs
\* in order; out is what it returns or raises
RECURSIVE RunAlone(_, _, _)
RunAlone(f, prof, rs) ==
    LET begin(qs) ==
            [pc |-> "get", queries |-> QueryList(_build_queries(prof), qs), qi |-> 1,
             page |-> 1, loc |-> Locals0, out |-> None]
        ended(ops) ==
            [pc |-> "done", queries |-> <<>>, qi |-> 0, page |-> 0, loc |-> Locals0,
             out |-> Some(Ranked(ops, prof, settings, clock))]
    IN  IF f.pc = "idle"
            THEN IF CredentialsMissing(settings) THEN ended(<<>>)
                 ELSE IF ExpanderConfigured THEN RunAlone([f EXCEPT !.pc = "expand"], prof, rs)
                 ELSE RunAlone(begin(<<>>), prof, rs)
        ELSE IF rs = <<>> \/ f.pc \notin {"expand", "get"} THEN f
        ELSE IF f.pc = "expand"
            THEN RunAlone(begin(IF Head(rs).kind = "queries" THEN Head(rs).val ELSE <<>>),
                          prof, Tail(rs))
        ELSE IF Head(rs).kind # "page"
            THEN [f EXCEPT !.pc = "raised", !.out = Some(Head(rs).val)]
        ELSE LET items == Head(rs).val
                 st == PageLoop(items, f.loc, settings, f.queries, f.qi)
                 full == Len(st.collected) >= MaxTotal(settings)
             IN  IF ~(\/ items = <<>> \/ full
                      \/ st.added_for_query >= PerQueryCap(settings, f.queries)
                      \/ f.page = max_pages)
                    THEN RunAlone([f EXCEPT !.page = @ + 1, !.loc = st], prof, Tail(rs))
                 ELSE IF ~(\/ full /\ (~GroqQueryAvailable(f.queries) \/ st.groq_used)
                           \/ f.qi = Len(f.queries))
                    THEN RunAlone([f EXCEPT !.qi = @ + 1, !.page = 1,
                                            !.loc = [st EXCEPT !.added_for_query = 0]],
                                  prof, Tail(rs))
                 ELSE ended(FetchReturn(st, settings))

\* C14: for every interleaving of two extract_with_meta runs at their await
\* points, a run that has ended returned the list (order, scores, reasons,
\* match_method) or raised the error it returns or raises when it runs alone
\* and is given the same answers.
C14_RunsDoNotInterfere ==
    \A r \in 1..2 :
        FrameOf(r).pc \in {"done", "raised"} =>
            LET alone == RunAlone([pc |-> "idle", queries |-> <<>>, qi |-> 0, page |-> 0,
                                   loc |-> Locals0, out |-> None],
                                  FrameOf(r).profile, hist[r])
            IN  /\ alone.pc = FrameOf(r).pc
                /\ alone.out = IF FrameOf(r).pc = "done" THEN Some(FrameOf(r).result)
                               ELSE FrameOf(r).error

\* one run has returned a non-empty list while the other, suspended in its
\* second request or later, holds candidates of another profile
C14_OverlappingRuns ==
    /\ pc = "done" /\ result # <<>>
    /\ runs.other.pc = "get" /\ runs.other.loc.collected # <<>>
    /\ runs.other.profile # profile
    /\ runs.other.loc.collected[1].source_url = result[1].source_url

\* ------------------------------------------- groq_expander.py

default_model == "llama-3.1-8b-instant"

\* re.sub(r"[^a-zA-Z0-9\s\-_/+.]", " ", q)
RECURSIVE BlankOutside(_)
BlankOutside(q) ==
    IF q = "" THEN ""
    ELSE (IF Ch(q, 1) \in WordChars \cup {" ", "-", "/", "+", "."} THEN Ch(q, 1) ELSE " ")
         \o BlankOutside(SubSeq(q, 2, Len(q)))

_clean_query(q) ==
    LET cut == SubSeq(Strip(q), 1, Min(80, Len(Strip(q))))
        out == Strip(Collapse(BlankOutside(cut)))
    IN  IF Strip(q) = "" \/ Len(out) < 3 THEN "" ELSE out

\* The completion text is a list of pieces: a code fence, prose (no braces
\* in it), or the text of one JSON value: an object with or without the key
\* "queries", or an array.  The value of "queries" is a list of strings and
\* other values, or no list.
Fence == [k |-> "fence", queries |-> None]
Prose == [k |-> "text", queries |-> None]
JsonArray == [k |-> "array", queries |-> None]
JsonObject(raw) == [k |-> "object", queries |-> raw]
JsonList(items) == [k |-> "list", items |-> items]
JsonStr(v) == [k |-> "str", v |-> v]
JsonNum == [k |-> "num", v |-> ""]

\* _extract_json_object: None, or the object
_extract_json_object(content) ==
    LET cleaned == SelectSeq(content, LAMBDA p : p.k # "fence")
        objects == SelectSeq(cleaned, LAMBDA p : p.k = "object")
    IN  IF content = <<>> THEN None
        ELSE IF Len(cleaned) = 1 /\ cleaned[1].k = "object" THEN Some(cleaned[1])
        ELSE IF Len(objects) = 1 THEN Some(objects[1])
        ELSE None

\* expand: the loop over raw
RECURSIVE CleanedQueries(_, _, _, _)
CleanedQueries(raw, seen, out, max_queries) ==
    IF raw = <<>> \/ Len(out) >= max_queries THEN out
    ELSE LET q == IF Head(raw).k = "str" THEN _clean_query(Head(raw).v) ELSE ""
         IN  IF q = "" \/ Lower(q) \in seen
                THEN CleanedQueries(Tail(raw), seen, out, max_queries)
                ELSE CleanedQueries(Tail(raw), seen \cup {Lower(q)}, Append(out, q), max_queries)

\* expand from `content = ""` to its return; data is the decoded body: an
\* object with the completion text, or another JSON value
QueriesOf(data, max_queries) ==
    LET content == IF data.k = "object" THEN data.content ELSE <<>>
        obj == _extract_json_object(content)
    IN  IF obj = None \/ obj[1].queries = None THEN <<>>
        ELSE IF obj[1].queries[1].k # "list" THEN <<>>
        ELSE CleanedQueries(obj[1].queries[1].items, {}, <<>>, max_queries)

\* GroqQueryExpander.from_settings: model and max_queries
ExpanderModel(cfg) == IF Strip(cfg.groq_model) # "" THEN Strip(cfg.groq_model) ELSE default_model
ExpanderMaxQueries(cfg) ==
    Max(1, Min(12, IF cfg.groq_max_queries # 0 THEN cfg.groq_max_queries ELSE 6))

ExpandSettings ==
    {[groq_api_key |-> "gk", groq_model |-> m, groq_max_queries |-> n] :
        m \in {"", "mixtral-8x7b ", default_model}, n \in {0, 2}}

\* what a completion request can come to
Completions ==
    LET nodata == [k |-> "none", content |-> <<>>]
        body(content) == [kind |-> "ok", code |-> 200, data |-> [k |-> "object", content |-> content]]
        raw == JsonList(<<JsonStr(" ML  intern!"), JsonNum, JsonStr("ml intern"),
                              JsonStr("go"), JsonStr("Data-science internship India"),
                              JsonStr("web dev intern")>>)
    IN  {[kind |-> "status", code |-> c, data |-> nodata] : c \in {400, 401, 404, 429, 500}}
        \cup {[kind |-> "transport", code |-> 0, data |-> nodata],
              [kind |-> "malformed", code |-> 200, data |-> nodata],
              [kind |-> "ok", code |-> 200, data |-> [k |-> "array", content |-> <<>>]],
              body(<<>>), body(<<Prose>>), body(<<JsonArray>>),
              body(<<JsonObject(None)>>), body(<<JsonObject(Some(JsonStr("ml intern")))>>),
              body(<<JsonObject(Some(raw))>>),
              body(<<Fence, JsonObject(Some(raw)), Fence>>),
              body(<<Prose, JsonObject(Some(JsonList(<<JsonStr("c++ intern")>>))), Prose>>),
              body(<<JsonObject(Some(raw)), Prose, JsonObject(None)>>)}

NoCompletion == [kind |-> "", code |-> 0, data |-> [k |-> "none", content |-> <<>>]]

InitExpand ==
    /\ settings \in ExpandSettings
    /\ clock \in Clocks
    /\ profile = NoProfile
    /\ Idle
    /\ cands = <<>> /\ nscored = <<>> /\ call = None
    /\ now = 0 /\ otp_codes = <<>> /\ verified_emails = <<>> /\ users = {}
    /\ sheet1 = {} /\ reqs = <<>> /\ verified_ok = {} /\ otp_log = <<>>
    /\ web = <<>> /\ runs = <<>> /\ hist = <<>>
    /\ groq = [pc |-> "idle", posts |-> 0, first |-> NoCompletion, retry |-> NoCompletion,
               out |-> <<>>]

ExpandRest == <<settings, clock, profile, pipeline, direct, authvars, web, runs, hist>>

\* variant: every HTTP error status is retried
ShouldRetryAnyStatus(model, status) == model # default_model

\* `self.model != default_model and status in {400, 404}`
ShouldRetry(model, status) == model # default_model /\ status \in {400, 404}

\* expand up to `await client.post(...)`
expand_post ==
    /\ groq.pc \in {"idle", "returned"}
    /\ groq' = [pc |-> "post", posts |-> 1, first |-> NoCompletion, retry |-> NoCompletion,
                out |-> <<>>]
    /\ UNCHANGED ExpandRest

\* the first request is answered
expand_answered(resp) ==
    /\ groq.pc = "post"
    /\ groq' =
        IF resp.kind = "status" /\ ShouldRetry(ExpanderModel(settings), resp.code)
            THEN [groq EXCEPT !.pc = "retry", !.posts = @ + 1, !.first = resp]
        ELSE [groq EXCEPT !.pc = "returned", !.first = resp,
                          !.out = IF resp.kind = "ok"
                                  THEN QueriesOf(resp.data, ExpanderMaxQueries(settings))
                                  ELSE <<>>]
    /\ UNCHANGED ExpandRest

\* the request to the default model is answered
expand_retry_answered(resp) ==
    /\ groq.pc = "retry"
    /\ groq' = [groq EXCEPT !.pc = "returned", !.retry = resp,
                            !.out = IF resp.kind = "ok"
                                    THEN QueriesOf(resp.data, ExpanderMaxQueries(settings))
                                    ELSE <<>>]
    /\ UNCHANGED ExpandRest

NextExpand ==
    \/ expand_post
    \/ \E resp \in Completions : expand_answered(resp)
    \/ \E resp \in Completions : expand_retry_answered(resp)

SpecExpand == InitExpand /\ [][NextExpand]_vars

\* the answer expand ended on, and: it holds no JSON object at all
LastCompletion == IF groq.posts = 2 THEN groq.retry ELSE groq.first
NoObjectIn(resp) ==
    \/ resp.data.k # "object"
    \/ \A i \in DOMAIN resp.data.content : resp.data.content[i].k # "object"

\* C15 as stated: expand returns (it has no raising path) after at most two
\* completion requests; when the first request fails with an HTTP error
\* status and the configured model is not the default one, a second request
\* is made; after any other failure, a failed retry or output without a JSON
\* object it returns the empty list.  SpecExpand violates the second part:
\* status 401, 429 or 500 with a non-default model is not retried.
C15_RetriesOnProviderError ==
    groq.pc = "returned" =>
        /\ groq.posts <= 2
        /\ (groq.first.kind = "status" /\ ExpanderModel(settings) # default_model)
               => groq.posts = 2
        /\ groq.first.kind \in {"transport", "malformed"} => groq.out = <<>>
        /\ (groq.posts = 2 /\ groq.retry.kind # "ok") => groq.out = <<>>
        /\ (LastCompletion.kind = "ok" /\ NoObjectIn(LastCompletion)) => groq.out = <<>>

\* C15, amended: expand returns after at most two completion requests; it
\* makes the second one, to the default model, exactly when the first failed
\* with HTTP status 400 or 404 and the configured model is not the default
\* one; after any other failure of the first request (another error status,
\* a transport error, a body that is not JSON), after a failed retry, and on
\* output without a JSON object it returns the empty list; what it returns
\* are cleaned queries, at most max_queries of them.
C15_RetriesOnBadRequestOrNotFound ==
    /\ groq.posts <= 2
    /\ groq.pc = "retry" => groq.posts = 2
    /\ groq.pc = "returned" =>
        /\ groq.posts = 2 <=>
               /\ groq.first.kind = "status"
               /\ groq.first.code \in {400, 404}
               /\ ExpanderModel(settings) # default_model
        /\ groq.first.kind \in {"transport", "malformed"} => groq.out = <<>>
        /\ (groq.first.kind = "status" /\ groq.posts = 1) => groq.out = <<>>
        /\ (groq.posts = 2 /\ groq.retry.kind # "ok") => groq.out = <<>>
        /\ (LastCompletion.kind = "ok" /\ NoObjectIn(LastCompletion)) => groq.out = <<>>
        /\ Len(groq.out) <= ExpanderMaxQueries(settings)
        /\ \A i \in DOMAIN groq.out :
               /\ Len(groq.out[i]) >= 3
               /\ _clean_query(groq.out[i]) = groq.out[i]
               /\ \A j \in DOMAIN groq.out : Lower(groq.out[j]) = Lower(groq.out[i]) => j = i

\* status 404 for a configured model, then queries from the default model,
\* cut to max_queries
C15_RetrySucceeded ==
    /\ groq.pc = "returned" /\ groq.posts = 2
    /\ groq.first.code = 404
    /\ groq.out = <<"ML intern", "Data-science internship India">>

\* ------------------------------------------- sources/web_search.py: fetch

\* _clean_text
_clean_text(s) == SubSeq(Collapse(Strip(s)), 1, Min(500, Len(Collapse(Strip(s)))))

_looks_like_job(title, snippet, url) ==
    LET t == Lower(title \o " " \o snippet) IN
    IF ContainsAny(t, {"job alert", "salary", "glassdoor", "quora", "reddit"}) THEN FALSE
    ELSE \/ ContainsAny(t, {"intern", "internship", "fresher", "graduate", "entry level",
                            "campus", "trainee"})
         \/ ContainsAny(t, {"software engineer", "developer", "data analyst",
                            "data scientist", "ml engineer"})
         \/ ContainsAny(Lower(url), {"/jobs/", "/careers/", "/career/", "greenhouse.io",
                                     "lever.co", "smartrecruiters.com", "workdayjobs",
                                     "myworkdayjobs"})

_infer_kind(title) ==
    IF Contains(Lower(title), "intern") THEN "Internship"
    ELSE IF ContainsAny(Lower(title), {"full time", "full-time", "fte"}) THEN "Full-time"
    ELSE "Other"

\* the first position of a character of `stops` in s from position i on, or Len(s) + 1
RECURSIVE FirstOf(_, _, _)
FirstOf(s, i, stops) ==
    IF i > Len(s) \/ Ch(s, i) \in stops THEN i ELSE FirstOf(s, i + 1, stops)

\* _host: urlparse(url).hostname, lowered, for scheme://host[:port][/path]
_host(url) ==
    LET marks == {i \in 1..(Len(url) - 2) : SubSeq(url, i, i + 2) = "://"}
        from == (CHOOSE i \in marks : \A j \in marks : i <= j) + 3
    IN  IF marks = {} THEN ""
        ELSE Lower(SubSeq(url, from, FirstOf(url, from, {"/", ":", "?", "#"}) - 1))

\* _base_domain: the last two labels of a host name with more than two
_base_domain(hostname) ==
    LET dots == {i \in 1..Len(hostname) : Ch(hostname, i) = "."}
        last == CHOOSE i \in dots : \A j \in dots : i >= j
        before == CHOOSE i \in dots \ {last} : \A j \in dots \ {last} : i >= j
    IN  IF Cardinality(dots) <= 1 THEN hostname
        ELSE SubSeq(hostname, before + 1, Len(hostname))

\* Settings.opp_web_search_allowed_domain_list, for at most one entry
AllowedDomains(cfg) ==
    IF Strip(cfg.opp_web_search_allowed_domains) = "" THEN {}
    ELSE {Lower(Strip(cfg.opp_web_search_allowed_domains))}

_domain_allowed(url, cfg) ==
    IF AllowedDomains(cfg) = {} THEN TRUE
    ELSE IF _host(url) = "" THEN FALSE
    ELSE _host(url) \in AllowedDomains(cfg) \/ _base_domain(_host(url)) \in AllowedDomains(cfg)

\* max(1, min(8, opp_web_search_max_queries or 3))
WebMaxQueries(cfg) ==
    Max(1, Min(8, IF cfg.opp_web_search_max_queries # 0 THEN cfg.opp_web_search_max_queries
                  ELSE 3))

\* the query lists of _build_queries and fetch: deduplicated on the stripped,
\* lowered text; stripped where strip is TRUE
RECURSIVE UniqueQueries(_, _, _, _)
UniqueQueries(items, seen, out, strip) ==
    IF items = <<>> THEN out
    ELSE LET key == Lower(Strip(Head(items).q))
         IN  IF key = "" \/ key \in seen THEN UniqueQueries(Tail(items), seen, out, strip)
             ELSE UniqueQueries(Tail(items), seen \cup {key},
                      Append(out, IF strip THEN [Head(items) EXCEPT !.q = Strip(@)]
                                  ELSE Head(items)),
                      strip)

\* WebSearchSource._build_queries
WebBaseQueries(prof, cfg) ==
    LET clean(xs) == SelectSeq([i \in DOMAIN xs |-> Strip(xs[i])], LAMBDA x : x # "")
        terms == SliceTo(clean(prof.skills) \o clean(prof.interests), 6)
        seed_terms ==
            IF terms # <<>> THEN terms
            ELSE <<IF prof.department # "" THEN prof.department ELSE "engineering">>
        base == [i \in 1..Min(3, Len(seed_terms)) |->
                    [q |-> seed_terms[i] \o " internship India apply", method |-> "base"]]
                \o <<[q |-> "fresher software engineer India apply", method |-> "base"]>>
    IN  SliceTo(UniqueQueries(base, {}, <<>>, FALSE), WebMaxQueries(cfg))

\* _expand_queries_async on what the expander returned
WebGroqQueries(res) ==
    LET kept == SelectSeq(res, LAMBDA q : Strip(q) # "")
    IN  [i \in DOMAIN kept |-> [q |-> Strip(kept[i]) \o " apply", method |-> "groq"]]

\* fetch: uniq
WebQueries(prof, groq_queries, cfg) ==
    SliceTo(UniqueQueries(WebBaseQueries(prof, cfg) \o groq_queries, {}, <<>>, TRUE),
            WebMaxQueries(cfg))

\* _search_serpapi, _search_google_cse: the entries of the provider's list
\* that have a link and a title (display_host is left out, and with it the
\* company guess of the opportunity)
WebResults(entries) ==
    LET parsed == [i \in DOMAIN entries |->
                      [title |-> _clean_text(entries[i].title), link |-> Strip(entries[i].link),
                       snippet |-> _clean_text(entries[i].snippet)]]
    IN  SelectSeq(SliceTo(parsed, 20), LAMBDA r : r.link # "" /\ r.title # "")

\* fetch: filter and dedupe by URL, at most max(5, opp_max_results or 25)
RECURSIVE HeuristicKept(_, _, _, _)
HeuristicKept(all_results, seen_url, out, cfg) ==
    IF all_results = <<>> THEN out
    ELSE LET r == Head(all_results).r
             url == Strip(r.link)
         IN  IF \/ url = "" \/ Lower(url) \in seen_url
                \/ ~_domain_allowed(url, cfg)
                \/ ~_looks_like_job(r.title, r.snippet, url)
                THEN HeuristicKept(Tail(all_results), seen_url, out, cfg)
             ELSE LET op == [title |-> _clean_text(r.title), kind |-> _infer_kind(r.title),
                             location |-> "India / Remote", source |-> "Web Search",
                             source_url |-> url,
                             match_method |-> "web-" \o Head(all_results).method,
                             excerpt |-> _clean_text(r.snippet)]
                  IN  IF Len(out) + 1 >= Max(5, IF cfg.opp_max_results # 0
                                                 THEN cfg.opp_max_results ELSE 25)
                        THEN Append(out, op)
                        ELSE HeuristicKept(Tail(all_results), seen_url \cup {Lower(url)},
                                           Append(out, op), cfg)

\* _groq_filter_keep_urls on the answer of the completion request: None, or
\* the non-empty set of kept URLs
KeepUrls(resp) ==
    LET obj == _extract_json_object(IF resp.data.k = "object" THEN resp.data.content ELSE <<>>)
        urls == {Strip(u.v) : u \in {x \in {obj[1].keep[1].items[i] :
                                            i \in DOMAIN obj[1].keep[1].items} :
                                     x.k = "str" /\ SubSeq(Strip(x.v), 1, 4) = "http"}}
    IN  IF resp.kind # "ok" \/ obj = None THEN None
        ELSE IF obj[1].keep = None THEN None
        ELSE IF obj[1].keep[1].k # "list" THEN None
        ELSE IF urls = {} THEN None
        ELSE Some(urls)

\* variant: no keep-list is taken for an empty one
ApplyKeepStrict(out, keep_urls) ==
    SelectSeq(out, LAMBDA o : keep_urls # None /\ o.source_url \in keep_urls[1])

\* fetch: `if keep_urls: out = [o for o in out if o.source_url in keep_urls]`
ApplyKeep(out, keep_urls) ==
    IF keep_urls = None THEN out
    ELSE IF keep_urls[1] = {} THEN out
    ELSE SelectSeq(out, LAMBDA o : o.source_url \in keep_urls[1])

\* entries of the provider's result list
EntryA == [title |-> "ML Intern - Acme", link |-> "https://jobs.lever.co/acme/1 ", snippet |-> ""]
EntryB == [title |-> "Salary guide for interns", link |-> "https://blog.example.com/pay", snippet |-> ""]
EntryC == [title |-> "Backend  Developer", link |-> "https://acme.com/careers/2", snippet |-> "full-time"]
EntryD == [title |-> "Graduate Hackathon", link |-> "HTTPS://JOBS.LEVER.CO/acme/1", snippet |-> ""]
EntryE == [title |-> "", link |-> "https://acme.com/jobs/3", snippet |-> "trainee"]

\* what a search request can come to
SearchAnswers ==
    {[kind |-> "status", code |-> 403, entries |-> <<>>],
     [kind |-> "error", code |-> 0, entries |-> <<>>],
     [kind |-> "ok", code |-> 200, entries |-> <<>>],
     [kind |-> "ok", code |-> 200, entries |-> <<EntryA, EntryB>>],
     [kind |-> "ok", code |-> 200, entries |-> <<EntryE, EntryD, EntryC>>]}

\* what the completion request of the link filter can come to
FilterAnswers ==
    LET body(content) == [kind |-> "ok", data |-> [k |-> "object", content |-> content]]
        keep(v) == [k |-> "object", queries |-> None, keep |-> v]
    IN  {[kind |-> "failed", data |-> [k |-> "none", content |-> <<>>]],
         body(<<Prose>>),
         body(<<keep(None)>>),
         body(<<keep(Some(JsonStr("https://acme.com/careers/2")))>>),
         body(<<keep(Some(JsonList(<<JsonNum, JsonStr("ftp://acme.com/careers/2")>>)))>>),
         body(<<keep(Some(JsonList(<<JsonStr(" https://acme.com/careers/2"),
                                     JsonStr("https://elsewhere.example/jobs/9")>>)))>>),
         body(<<Fence, keep(Some(JsonList(<<JsonStr("https://elsewhere.example/jobs/9")>>))),
                Fence>>)}

WebSettings ==
    LET with(cfg, max_q, allowed) ==
            [cfg EXCEPT !.opp_web_search_max_queries = max_q,
                        !.opp_web_search_allowed_domains = allowed]
    IN  {with(WithWeb(Settings("", "", MaxResults, "IN", TRUE, TRUE, "gk"),
                      " SerpAPI", "sk", "", ""), 3, ""),
         with(WithWeb(Settings("", "", MaxResults, "IN", TRUE, TRUE, ""),
                      "google_cse", "", "gk", "cx"), 2, " Lever.co"),
         with(WithWeb(Settings("", "", MaxResults, "IN", TRUE, TRUE, "gk"),
                      "serpapi", " ", "", ""), 0, ""),
         with(Settings("", "", MaxResults, "IN", TRUE, TRUE, "gk"), 3, "")}

WebIdle ==
    [pc |-> "idle", profile |-> NoProfile, uniq |-> <<>>, qi |-> 0, all_results |-> <<>>,
     first_http_error |-> None, heur |-> <<>>, answer |-> None, fetch |-> "", ops |-> <<>>,
     meta |-> None]

InitWeb ==
    /\ settings \in WebSettings
    /\ clock \in Clocks
    /\ profile = NoProfile
    /\ Idle
    /\ cands = <<>> /\ nscored = <<>> /\ call = None
    /\ now = 0 /\ otp_codes = <<>> /\ verified_emails = <<>> /\ users = {}
    /\ sheet1 = {} /\ reqs = <<>> /\ verified_ok = {} /\ otp_log = <<>>
    /\ runs = <<>> /\ hist = <<>> /\ groq = <<>>
    /\ web = WebIdle

WebRest == <<settings, clock, profile, pipeline, direct, authvars, runs, hist, groq>>

\* fetch_with_meta: the error text of an HTTPStatusError
WebErrorText(cfg) ==
    IF WebProvider(cfg) = "google_cse" THEN "Google CSE request failed"
    ELSE IF WebProvider(cfg) = "serpapi" THEN "SerpAPI request failed"
    ELSE "Web search request failed"

\* variant: only an error on the first query is raised
RaisesHttpErrorOfFirstQuery(w) ==
    w.first_http_error # None /\ w.all_results = <<>> /\ w.first_http_error[1].qi = 1

\* `if first_http_error is not None and not all_results: raise first_http_error`
RaisesHttpError(w) == w.first_http_error # None /\ w.all_results = <<>>

\* fetch from the end of the query loop to the filter request or the return,
\* and fetch_with_meta's handling of what fetch raised
AfterSearches(w) ==
    IF RaisesHttpError(w)
        THEN [w EXCEPT !.pc = "returned", !.fetch = "raised", !.ops = <<>>,
                       !.meta = Some([@[1] EXCEPT !.error =
                                        Some([text |-> WebErrorText(settings),
                                              status |-> w.first_http_error[1].status])])]
    ELSE LET out == HeuristicKept(w.all_results, {}, <<>>, settings) IN
         IF Strip(settings.groq_api_key) = ""
            THEN [w EXCEPT !.pc = "returned", !.fetch = "returned", !.heur = out,
                           !.ops = ApplyKeep(out, None)]
            ELSE [w EXCEPT !.pc = "filter", !.heur = out]

\* fetch enters the query loop
BeginSearches(w, groq_queries) ==
    [w EXCEPT !.pc = "search", !.qi = 1,
              !.uniq = WebQueries(w.profile, groq_queries, settings)]

\* fetch_with_meta(prof) up to the first await of fetch; expander tells
\* whether the source was given a query_expander
web_fetch_with_meta(prof, expander) ==
    /\ web.pc = "idle"
    /\ LET meta0 == [enabled |-> WebEnabled(settings), provider |-> WebProvider(settings),
                     used |-> FALSE, error |-> None]
           w == [web EXCEPT !.profile = prof, !.meta = Some([meta0 EXCEPT !.used = TRUE])]
       IN  web' = IF ~WebEnabled(settings)
                     THEN [web EXCEPT !.pc = "returned", !.profile = prof, !.meta = Some(meta0)]
                  ELSE IF expander THEN [w EXCEPT !.pc = "expand"]
                  ELSE BeginSearches(w, <<>>)
    /\ UNCHANGED WebRest

\* _expand_queries_async: the expander returns a list, or raises
web_expanded(res, raised) ==
    /\ web.pc = "expand"
    /\ web' = BeginSearches(web, IF raised THEN <<>> ELSE WebGroqQueries(res))
    /\ UNCHANGED WebRest

\* fetch: one pass of `for q, method in uniq` after _search returned or raised
web_searched(resp) ==
    /\ web.pc = "search"
    /\ LET method == web.uniq[web.qi].method
           results == WebResults(resp.entries)
           w == IF resp.kind = "status"
                    THEN [web EXCEPT !.first_http_error = Some([status |-> resp.code, qi |-> web.qi])]
                ELSE IF resp.kind = "error" THEN web
                ELSE [web EXCEPT !.all_results =
                         @ \o [i \in DOMAIN results |-> [r |-> results[i], method |-> method]]]
       IN  web' = IF resp.kind = "status" \/ web.qi = Len(web.uniq) THEN AfterSearches(w)
                  ELSE [w EXCEPT !.qi = @ + 1]
    /\ UNCHANGED WebRest

\* fetch: _groq_filter_keep_urls returned
web_filtered(resp) ==
    /\ web.pc = "filter"
    /\ web' = [web EXCEPT !.pc = "returned", !.fetch = "returned", !.answer = Some(resp),
                          !.ops = ApplyKeep(web.heur, KeepUrls(resp))]
    /\ UNCHANGED WebRest

NextWeb ==
    \/ \E prof \in Profiles \cup {Profile("ECE", <<>>, <<>>)}, expander \in BOOLEAN :
           web_fetch_with_meta(prof, expander)
    \/ \E res \in ExpanderOutputs : web_expanded(res, FALSE)
    \/ web_expanded(<<>>, TRUE)
    \/ \E resp \in SearchAnswers : web_searched(resp)
    \/ \E resp \in FilterAnswers : web_filtered(resp)

SpecWeb == InitWeb /\ [][NextWeb]_vars

\* ------------------------------------------- properties of SpecWeb

\* C16 as stated: fetch raises an HTTP status error only when it came on
\* the first query with nothing accumulated; one that came on a later
\* query after results exist is swallowed and the filtered results are
\* returned; fetch_with_meta turns the raised error into ([], meta) with
\* used true and error set.  SpecWeb violates the first part: an error on
\* the second query, the first having brought nothing, is raised too.
C16_RaisedOnlyOnFirstQuery ==
    (web.pc = "returned" /\ web.fetch # "") =>
        /\ web.fetch = "raised" =>
               /\ web.first_http_error # None
               /\ web.first_http_error[1].qi = 1
               /\ web.all_results = <<>>
        /\ (web.first_http_error # None /\ web.all_results # <<>>) => web.fetch = "returned"
        /\ web.fetch = "raised" =>
               web.ops = <<>> /\ web.meta[1].used /\ web.meta[1].error # None

\* C16, amended: fetch raises an HTTP status error exactly when nothing has
\* been accumulated by the time it comes, on whichever query; the error ends
\* the query loop; one that comes after results exist is swallowed and the
\* results accumulated so far are filtered and returned.  fetch_with_meta
\* turns the raised error into ([], meta) with used true and error naming
\* the provider and the status, and reports no error otherwise.
C16_RaisedWhenNothingAccumulated ==
    /\ web.pc \in {"expand", "search", "filter"} => web.meta[1].used /\ web.meta[1].error = None
    /\ (web.pc = "returned" /\ web.fetch # "") =>
        /\ web.fetch = "raised" <=> (web.first_http_error # None /\ web.all_results = <<>>)
        /\ web.first_http_error # None => web.qi = web.first_http_error[1].qi
        /\ web.first_http_error = None => web.qi = Len(web.uniq)
        /\ web.fetch = "raised" =>
               /\ web.ops = <<>>
               /\ web.meta[1].used
               /\ web.meta[1].error =
                      Some([text |-> IF WebProvider(settings) = "serpapi"
                                     THEN "SerpAPI request failed"
                                     ELSE "Google CSE request failed",
                            status |-> 403])
        /\ web.fetch = "returned" =>
               /\ web.meta[1].used /\ web.meta[1].error = None
               /\ \A i \in DOMAIN web.ops :
                      \E j \in DOMAIN web.all_results :
                          web.ops[i].source_url = web.all_results[j].r.link

\* the first query brought no results, the second an HTTP error: raised
C16_ErrorOnSecondQueryRaised ==
    /\ web.pc = "returned" /\ web.fetch = "raised"
    /\ web.first_http_error # None /\ web.first_http_error[1].qi = 2
    /\ web.meta[1].error # None

\* the answer of the link filter yields no keep-list
NoKeepList(resp) ==
    \/ resp.kind # "ok"
    \/ \A i \in DOMAIN resp.data.content :
          \/ resp.data.content[i].k # "object"
          \/ resp.data.content[i].keep = None
          \/ resp.data.content[i].keep[1].k # "list"
          \/ \A n \in DOMAIN resp.data.content[i].keep[1].items :
                \/ resp.data.content[i].keep[1].items[n].k # "str"
                \/ SubSeq(Strip(resp.data.content[i].keep[1].items[n].v), 1, 4) # "http"

\* C17: the list fetch returns is a sub-list of the list the heuristic
\* filters kept: the same items in the same order, none added; it is that
\* list unchanged when the link filter is not configured (no Groq key), when
\* its request fails, and when its answer yields no keep-list.
C17_FilterOnlyRemoves ==
    (web.pc = "returned" /\ web.fetch = "returned") =>
        /\ web.ops = SelectSeq(web.heur, LAMBDA o : \E i \in DOMAIN web.ops : web.ops[i] = o)
        /\ \A i, j \in DOMAIN web.heur :
               Lower(web.heur[i].source_url) = Lower(web.heur[j].source_url) => i = j
        /\ web.answer = None => web.ops = web.heur
        /\ (web.answer # None /\ NoKeepList(web.answer[1])) => web.ops = web.heur

\* of two links the heuristics kept the filter kept one
C17_FilterRemovedOne ==
    /\ web.pc = "returned" /\ web.fetch = "returned"
    /\ Len(web.heur) = 2 /\ Len(web.ops) = 1
    /\ web.ops[1] = web.heur[2]

\* ------------------------------------------- extractor.py: the region filter, called directly

RegionSettings ==
    {Settings("id", "key", MaxResults, country, remote, FALSE, "") :
        country \in {"IN", " any", "us", ""}, remote \in BOOLEAN}

Locations ==
    {"", " ", "Chennai", "Pune, INDIA", "Tamil Nadu", "Remote", "Remote - India", "WFH",
     "Work From Home", "Worldwide", "Berlin", "Neptune City", "London (remote)", "USA"}

InitRegion ==
    /\ settings \in RegionSettings
    /\ clock \in Clocks
    /\ profile = NoProfile
    /\ Idle
    /\ cands = <<>>
    /\ nscored = <<>>
    /\ call = None
    /\ ServicesIdle

\* _location_ok(location), and the filter stage of extract_with_meta on one
\* open, recent, junior candidate with that location
LocationStep(location) ==
    /\ call = None
    /\ call' = Some([fn |-> "_location_ok", location |-> location,
                     value |-> _location_ok(location, settings),
                     out |-> Ranked(<<Cand("QA Intern", "", "Other", location, "http://j/4",
                                          None, Some(Today + 5), <<>>)>>,
                                    NoProfile, settings, clock)])
    /\ UNCHANGED <<settings, clock, profile, cands, nscored>>
    /\ UNCHANGED <<pipeline, services>>

NextRegion == \E location \in Locations : LocationStep(location)

SpecRegion == InitRegion /\ [][NextRegion]_vars

RemoteTokens == {"remote", "wfh", "work from home", "worldwide"}

\* C18: unless the region mode is 'any', _location_ok holds exactly when the
\* location text is empty, or contains an India-locale token and no remote
\* token, or contains a remote token and opp_include_remote is set, and a
\* candidate for which it does not hold is not in the output; with the mode
\* 'any' it holds of every location, and the output lacks the candidate
\* only for the separate remote test.
C18_RegionFilterExactly ==
    call # None =>
        LET low == Lower(call[1].location)
            remote == ContainsAny(low, RemoteTokens)
            india == ContainsAny(low, india_tokens \ RemoteTokens)
            passes ==
                \/ call[1].location = ""
                \/ india /\ ~remote
                \/ remote /\ settings.opp_include_remote
            any == Upper(Strip(IF settings.opp_country # "" THEN settings.opp_country
                               ELSE "any")) = "ANY"
        IN  /\ ~any => (call[1].value <=> passes)
            /\ ~any => (call[1].out # <<>> <=> passes)
            /\ any => call[1].value
            /\ any => (call[1].out = <<>> <=>
                          /\ ~settings.opp_include_remote
                          /\ ContainsAny(low, {"remote", "wfh", "work from home"}))

\* India-only mode, remote inclusion off: "Remote - India" is excluded
C18_RemoteIndiaExcluded ==
    /\ call # None
    /\ call[1].location = "Remote - India"
    /\ Strip(settings.opp_country) = "IN" /\ ~settings.opp_include_remote
    /\ ~call[1].value /\ call[1].out = <<>>

\* ------------------------------------------- sources/*.py: the kind of a mapped record

Kinds == {"Internship", "Hackathon", "Workshop", "Competition", "Full-time", "Other"}

KindTitles ==
    {"Summer Intern", "Campus Hackathon", "Python Bootcamp", "Graduate Engineer",
     "Full-Time Developer", "Senior Architect", "Junior Analyst", "INTERNSHIP Training",
     "Data Workshop", "Graduate Hackathon"}

KindCategories == {"", "Engineering", "Training"}

\* remotive.py: the ladder of _to_op, which has no Workshop rung; a missing
\* category reads "Other"
RemotiveKind(title, category) ==
    LET cat == Strip(IF category # "" THEN category ELSE "Other")
        low == Lower(title \o " " \o cat)
    IN  IF Contains(low, "intern") THEN "Internship"
        ELSE IF Contains(low, "hackathon") THEN "Hackathon"
        ELSE IF ContainsAny(low, {"graduate", "junior", "entry", "fresher"}) THEN "Full-time"
        ELSE "Other"

InitKind ==
    /\ settings \in StageSettings
    /\ clock \in Clocks
    /\ profile = NoProfile
    /\ Idle
    /\ cands = <<>>
    /\ nscored = <<>>
    /\ call = None
    /\ ServicesIdle

Classified(adapter, title, category, kind) ==
    Some([fn |-> "kind", adapter |-> adapter, title |-> title,
          category |-> category, kind |-> kind])

\* adzuna.py _to_op: title and category label
adzuna_kind(title, category) ==
    /\ call = None
    /\ call' = Classified("adzuna", title, category, KindOf(title, category))
    /\ UNCHANGED <<settings, clock, profile, cands, nscored>>
    /\ UNCHANGED <<pipeline, services>>

\* lever.py _to_op: title and team, by the same lines as adzuna.py
lever_kind(title, team) ==
    /\ call = None
    /\ call' = Classified("lever", title, team, KindOf(title, team))
    /\ UNCHANGED <<settings, clock, profile, cands, nscored>>
    /\ UNCHANGED <<pipeline, services>>

\* greenhouse.py _to_op: title and the joined department names
greenhouse_kind(title, departments) ==
    /\ call = None
    /\ call' = Classified("greenhouse", title, departments, KindOf(title, departments))
    /\ UNCHANGED <<settings, clock, profile, cands, nscored>>
    /\ UNCHANGED <<pipeline, services>>

\* smartrecruiters.py _to_op: title and department label
smartrecruiters_kind(title, department) ==
    /\ call = None
    /\ call' = Classified("smartrecruiters", title, department, KindOf(title, department))
    /\ UNCHANGED <<settings, clock, profile, cands, nscored>>
    /\ UNCHANGED <<pipeline, services>>

remotive_kind(title, category) ==
    /\ call = None
    /\ call' = Classified("remotive", title, category, RemotiveKind(title, category))
    /\ UNCHANGED <<settings, clock, profile, cands, nscored>>
    /\ UNCHANGED <<pipeline, services>>

\* rss.py _entry_to_op: the kind is the literal "Other"
rss_kind(title) ==
    /\ call = None
    /\ call' = Classified("rss", title, "", "Other")
    /\ UNCHANGED <<settings, clock, profile, cands, nscored>>
    /\ UNCHANGED <<pipeline, services>>

\* web_search.py fetch: _infer_kind(r.title)
web_search_kind(title) ==
    /\ call = None
    /\ call' = Classified("web_search", title, "", _infer_kind(title))
    /\ UNCHANGED <<settings, clock, profile, cands, nscored>>
    /\ UNCHANGED <<pipeline, services>>

NextKind ==
    \/ \E title \in KindTitles, category \in KindCategories :
          \/ adzuna_kind(title, category)
          \/ lever_kind(title, category)
          \/ greenhouse_kind(title, category)
          \/ smartrecruiters_kind(title, category)
          \/ remotive_kind(title, category)
    \/ \E title \in KindTitles :
          \/ rss_kind(title)
          \/ web_search_kind(title)

SpecKind == InitKind /\ [][NextKind]_vars

\* C19: the kind of a record mapped by any adapter is the result of the
\* ladder intern, hackathon, workshop/bootcamp/training,
\* graduate/junior/entry/fresher, Other over the lower-cased title and
\* category text, and is one of the kinds of OpportunityKind.
C19_KindByOneLadder ==
    call # None =>
        LET low == Lower(call[1].title \o " " \o call[1].category)
            rung(words) == \E w \in words : Contains(low, w)
            ladder ==
                IF rung({"intern"}) THEN "Internship"
                ELSE IF rung({"hackathon"}) THEN "Hackathon"
                ELSE IF rung({"workshop", "bootcamp", "training"}) THEN "Workshop"
                ELSE IF rung({"graduate", "junior", "entry", "fresher"}) THEN "Full-time"
                ELSE "Other"
        IN  call[1].kind = ladder /\ call[1].kind \in Kinds

\* ------------------------------------------- sources/adzuna.py: fetch under larger budgets

BudgetMax == 5

\* credentials and an expander key configured, opp_max_results from 1 to BudgetMax
BudgetSettings ==
    {Settings("id", "key", n, "IN", TRUE, FALSE, "gk") : n \in 1..BudgetMax}

\* the "results" arrays a search request is answered with here
BudgetPages == {<<>>, <<ItemD>>, <<ItemA, ItemC, ItemF>>, <<ItemF, ItemD, ItemB, ItemC>>}

InitBudget ==
    /\ settings \in BudgetSettings
    /\ clock \in Clocks
    /\ profile = NoProfile
    /\ Idle
    /\ cands = <<>>
    /\ nscored = <<>>
    /\ call = None
    /\ ServicesIdle

NextBudget ==
    \/ \E prof \in Profiles : Start(prof)
    \/ \E qs \in ExpanderOutputs : ExpanderReturns(qs)
    \/ ExpanderRaises
    \/ \E kind \in {"status", "timeout", "malformed"} : GetFails(kind)
    \/ \E items \in BudgetPages : GetReturns(items)

SpecBudget == InitBudget /\ [][NextBudget]_vars

\* the items collected so far from plain queries
BaseKept == Cardinality({i \in DOMAIN loc.collected : loc.collected[i].match_method = Some("base")})

\* the first AI-expanded query is being issued
FirstGroqIssued ==
    /\ pc = "get"
    /\ GroqQueryAvailable(queries)
    /\ qi = FirstGroqIndex(queries)[1]
    /\ page = 1

\* max(3, max_total // 3)
ReservedOf(max_total) == IF max_total \div 3 > 3 THEN max_total \div 3 ELSE 3

\* C20 as stated: while no plain query after the first AI-expanded one has
\* been issued, at most max_total - reserved items (none when that is not
\* positive) are kept from plain queries, and when the first AI-expanded
\* query is issued at least `reserved` slots of max_total are free.
C20_ReservedSlotsFree ==
    LET max_total == MaxTotal(settings)
        reserved == ReservedOf(max_total)
    IN  /\ (pc = "get" /\ GroqQueryAvailable(queries) /\ qi <= FirstGroqIndex(queries)[1])
               => BaseKept <= Max(0, max_total - reserved)
        /\ FirstGroqIssued => max_total - Len(loc.collected) >= reserved

\* C20 (amended): the same bound on the items kept from plain queries, and
\* at least min(reserved, max_total) slots are free when the first
\* AI-expanded query is issued.
C20_ReservedSlotsFreeWithinBudget ==
    LET max_total == MaxTotal(settings)
        reserved == ReservedOf(max_total)
    IN  /\ (pc = "get" /\ GroqQueryAvailable(queries) /\ qi <= FirstGroqIndex(queries)[1])
               => BaseKept <= Max(0, max_total - reserved)
        /\ FirstGroqIssued => max_total - Len(loc.collected) >= Min(reserved, max_total)

\* the plain query before the first AI-expanded one filled its whole share
C20_ShareFilled ==
    /\ FirstGroqIssued
    /\ MaxTotal(settings) - ReservedOf(MaxTotal(settings)) > 0
    /\ BaseKept = MaxTotal(settings) - ReservedOf(MaxTotal(settings))

\* some entry of ops came from an AI-expanded query
HasGroqItem(ops) == \E i \in DOMAIN ops : ops[i].match_method = Some("groq")

\* a page holds a valid item whose URL key is not in `seen`
HasNewValid(items, seen) ==
    \E i \in DOMAIN items :
        /\ ToOp[items[i]]["groq"] # None
        /\ UrlKey(ToOp[items[i]]["groq"][1].source_url) \notin ({""} \cup seen)

\* what the run holds after a step: the list fetch returned, or `collected`
HeldNext == IF pc' = "done" THEN adzuna_ops' ELSE loc'.collected

\* C21: when the page an AI-expanded query is answered with holds a valid
\* item not collected before, an item with match_method 'groq' is collected;
\* once one is collected it stays through every later answered request and
\* is in the list fetch returns.
C21_GroqNeverStarved ==
    /\ [][\A items \in BudgetPages :
            (GetReturns(items) /\ queries[qi].method = "groq"
                /\ HasNewValid(items, loc.seen)) => HasGroqItem(HeldNext)]_vars
    /\ [][\A items \in BudgetPages :
            (GetReturns(items) /\ HasGroqItem(loc.collected)) => HasGroqItem(HeldNext)]_vars

\* fetch returned a full list that holds base items and a groq item
C21_GroqItemInFullList ==
    /\ pc = "done"
    /\ Len(adzuna_ops) = MaxTotal(settings)
    /\ HasGroqItem(adzuna_ops)
    /\ \E i \in DOMAIN adzuna_ops : adzuna_ops[i].match_method = Some("base")

\* the budget is used up and AI-expanded queries, if any, have contributed
BudgetReached(st) ==
    /\ Len(st.collected) >= ResultsPerPage(settings)
    /\ \/ \A i \in DOMAIN queries : queries[i].method # "groq"
       \/ HasGroqItem(st.collected)

\* C22: no search request is issued, and none is in flight, once max_total
\* items are collected and either the query list has no AI-expanded query
\* or an AI-sourced item has been kept; the list fetch returns has at most
\* max_total items.
C22_GlobalStop ==
    /\ [](pc = "get" => ~BudgetReached(loc))
    /\ [][requests' # requests => ~BudgetReached(loc) /\ ~BudgetReached(loc')]_vars
    /\ [](Len(adzuna_ops) <= ResultsPerPage(settings))

\* a run without AI-expanded queries filled the budget with its first
\* page and ended after that one request
C22_StoppedAfterFirstPage ==
    /\ pc = "done"
    /\ requests = 1
    /\ Len(adzuna_ops) = ResultsPerPage(settings)
    /\ ~HasGroqItem(adzuna_ops)

\* ------------------------------------------- sources/adzuna.py: the query list of fetch

\* lists GroqQueryExpander.expand can return: none, one that repeats base
\* queries in another case, and one long enough for the cap of 10 to cut
QueryExpansions ==
    {<<>>,
     <<"Internship", "Software Intern", "ml intern">>,
     <<"python jobs", "data intern", "web developer", "ml fresher", "java trainee",
       "cloud intern", "qa fresher">>}

QuerySettings ==
    {Settings("id", "key", MaxResults, "IN", TRUE, FALSE, groq_key) : groq_key \in {"", "gk"}}

QueryPages == {<<>>, <<ItemA>>, <<ItemD>>}

InitQueries ==
    /\ settings \in QuerySettings
    /\ clock \in Clocks
    /\ profile = NoProfile
    /\ Idle
    /\ cands = <<>>
    /\ nscored = <<>>
    /\ call = None
    /\ ServicesIdle

NextQueries ==
    \/ \E prof \in Profiles : Start(prof)
    \/ \E qs \in QueryExpansions : ExpanderReturns(qs)
    \/ ExpanderRaises
    \/ \E kind \in {"status", "timeout", "malformed"} : GetFails(kind)
    \/ \E items \in QueryPages : GetReturns(items)

SpecQueries == InitQueries /\ [][NextQueries]_vars

RECURSIVE IsSubsequence(_, _)
IsSubsequence(a, b) ==
    IF a = <<>> THEN TRUE
    ELSE IF b = <<>> THEN FALSE
    ELSE IF Head(a) = Head(b) THEN IsSubsequence(Tail(a), Tail(b))
    ELSE IsSubsequence(a, Tail(b))

\* primary, then the expander's queries in its order, then the fallbacks
PriorityOrder(prof, expandedQs) ==
    LET base == _build_queries(prof)
    IN  <<[q |-> base[1], method |-> "base"]>>
        \o [i \in DOMAIN expandedQs |-> [q |-> expandedQs[i], method |-> "groq"]]
        \o [i \in 1..(Len(base) - 1) |-> [q |-> base[i + 1], method |-> "base"]]

QueryKey(q) == Lower(Strip(q))

\* qs has at most 10 entries, no two alike after trimming and lowercasing,
\* in the priority order, and lacks a listed query only for the cap or
\* because an alike one is in it
WellFormedQueries(qs, prof, expandedQs) ==
    /\ Len(qs) <= 10
    /\ \A i, j \in DOMAIN qs : i # j => QueryKey(qs[i].q) # QueryKey(qs[j].q)
    /\ IsSubsequence(qs, PriorityOrder(prof, expandedQs))
    /\ qs[1] = PriorityOrder(prof, expandedQs)[1]
    /\ \/ Len(qs) = 10
       \/ \A i \in DOMAIN PriorityOrder(prof, expandedQs) :
              \E j \in DOMAIN qs : QueryKey(qs[j].q) = QueryKey(PriorityOrder(prof, expandedQs)[i].q)

\* C23: the query list fetch builds has at most 10 entries, no two equal
\* after trimming and lowercasing, in the order primary, AI-expanded (as
\* the expander returned them), fallbacks; the requests go out in that
\* order: a request is for the first query, for a further page of the
\* query of the request before, or for the first page of the next query.
C23_QueryListOrdered ==
    /\ [][\A qs \in QueryExpansions :
            ExpanderReturns(qs) => WellFormedQueries(queries', profile, qs)]_vars
    /\ [][(ExpanderRaises \/ (pc = "idle" /\ pc' = "get"))
            => WellFormedQueries(queries', profile', <<>>)]_vars
    /\ [][requests' # requests =>
            /\ requests' = requests + 1
            /\ qi' \in DOMAIN queries'
            /\ \/ pc # "get" /\ qi' = 1 /\ page' = 1
               \/ pc = "get" /\ queries' = queries /\ qi' = qi /\ page' = page + 1
               \/ pc = "get" /\ queries' = queries /\ qi' = qi + 1 /\ page' = 1]_vars

\* the tenth and last query of a list the cap has cut is being requested
C23_TenthQueryIssued ==
    /\ pc = "get"
    /\ Len(queries) = 10
    /\ qi = 10
    /\ queries[10].method = "base"
    /\ \A i \in DOMAIN queries : queries[i].q # "graduate trainee"

\* ------------------------------------------- sources/adzuna.py: one fetch and its answers

MaxAnswers == 6

ProvenanceSettings ==
    {Settings("id", "key", n, "IN", TRUE, FALSE, "gk") : n \in {MaxResults, 2 * MaxResults}}

ProvenancePages == {<<>>, <<ItemA>>, <<ItemB, ItemF>>}

InitProvenance ==
    /\ settings \in ProvenanceSettings
    /\ clock \in Clocks
    /\ profile = NoProfile
    /\ Idle
    /\ cands = <<>> /\ nscored = <<>> /\ call = None
    /\ now = 0 /\ otp_codes = <<>> /\ verified_emails = <<>> /\ users = {}
    /\ sheet1 = {} /\ reqs = <<>> /\ verified_ok = {} /\ otp_log = <<>>
    /\ web = <<>> /\ groq = <<>>
    /\ runs = [active |-> 1, other |-> IdleFrame]
    /\ hist = [r \in 1..2 |-> <<>>]

\* the expander or the provider answers the request in flight; the answer is
\* recorded with the query it answers
Answer(resp) ==
    /\ pc \in {"expand", "get"}
    /\ Len(hist[1]) = Consumed(RunFrame)
    /\ Len(hist[1]) < MaxAnswers
    /\ resp.kind = (IF pc = "expand" THEN "queries" ELSE "page")
    /\ hist' = [hist EXCEPT ![1] =
                   Append(@, [kind |-> resp.kind, val |-> resp.val, qi |-> qi,
                              method |-> IF pc = "get" THEN queries[qi].method ELSE ""])]
    /\ UNCHANGED <<settings, clock, profile, pipeline, direct, authvars, web, runs, groq>>

Answers ==
    {[kind |-> "queries", val |-> <<"ml intern">>]}
    \cup {[kind |-> "page", val |-> items] : items \in ProvenancePages}

NextProvenance ==
    \/ \E prof \in Profiles : Start(prof)
    \/ \E resp \in Answers : Answer(resp)
    \/ Resume

SpecProvenance == InitProvenance /\ [][NextProvenance]_vars

\* the records the run holds: the list fetch returned, or `collected`
Held == IF pc = "done" THEN adzuna_ops ELSE loc.collected

\* the pages the run has taken in, by position in the answers
PagesTaken == {n \in 1..Min(Len(hist[1]), Consumed(RunFrame)) : hist[1][n].kind = "page"}

\* the page answer h holds an item that maps to a record with URL key k
Returns(h, k) ==
    \E x \in DOMAIN h.val :
        /\ _to_op(h.val[x], h.method) # None
        /\ UrlKey(_to_op(h.val[x], h.method)[1].source_url) = k

\* the page answer h holds the item that maps to op under h's provenance
Produces(h, op) == \E x \in DOMAIN h.val : _to_op(h.val[x], h.method) = Some(op)

\* every record of the output has the match_method of the held record with its URL
OutputCarriesProvenance ==
    pc = "done" =>
        \A i \in DOMAIN result :
            \E j \in DOMAIN adzuna_ops :
                /\ UrlKey(adzuna_ops[j].source_url) = UrlKey(result[i].source_url)
                /\ adzuna_ops[j].match_method = result[i].match_method

\* C24 as stated: every record held was produced, with its provenance, by
\* the earliest answered query among those whose pages returned its URL,
\* and the output carries that provenance.
C24_EarliestReturningQueryKept ==
    /\ pc \in {"get", "done"} =>
          \A i \in DOMAIN Held :
              LET returning == {n \in PagesTaken : Returns(hist[1][n], UrlKey(Held[i].source_url))}
                  first == CHOOSE n \in returning : \A m \in returning : n <= m
              IN  returning # {} /\ Produces(hist[1][first], Held[i])
    /\ OutputCarriesProvenance

\* C24 (amended): no two records held have the same URL key; a record
\* collected by a step was produced, with its provenance, by the page that
\* step took in; a record once collected stays as it is through every
\* later page and in the list fetch returns; the output carries the
\* provenance of the held record.
C24_FirstCollectingQueryKept ==
    /\ [](\A i, j \in DOMAIN Held :
              i # j => UrlKey(Held[i].source_url) # UrlKey(Held[j].source_url))
    /\ [][(pc = "get" /\ pc' \in {"get", "done"}) =>
            LET after == IF pc' = "done" THEN adzuna_ops' ELSE loc'.collected
                taken == hist[1][Len(hist[1])]
            IN  /\ Len(after) >= Len(loc.collected)
                /\ \A i \in DOMAIN after :
                      IF i <= Len(loc.collected) THEN after[i] = loc.collected[i]
                      ELSE Produces(taken, after[i])]_vars
    /\ []OutputCarriesProvenance

\* a record collected by an AI-expanded query was returned again by a later
\* plain query and is in the output with match_method 'groq'
C24_ReturnedAgainByLaterQuery ==
    /\ pc = "done"
    /\ \E i \in DOMAIN result :
          /\ result[i].match_method = Some("groq")
          /\ \E n \in PagesTaken :
                /\ hist[1][n].method = "base"
                /\ hist[1][n].qi > 1
                /\ Returns(hist[1][n], UrlKey(result[i].source_url))

\* C25: a request in flight is for page 1 or 2 of its query; after a page
\* without items the next request, if any, is for another query; a fetch
\* issues at most 20 requests, and the answer to the twentieth ends it.
C25_PagingBounded ==
    /\ [](pc = "get" => page \in {1, 2})
    /\ [](requests <= 20)
    /\ [][(GetReturns(<<>>) /\ pc' = "get") => qi' = qi + 1 /\ page' = 1]_vars
    /\ [][(pc = "get" /\ requests = 20 /\ pc' # "raised") => pc' = "done"]_vars

\* a fetch of ten queries ended after its twentieth request
C25_TwentyRequests ==
    /\ pc = "done"
    /\ requests = 20

\* ------------------------------------------- extractor.py: the filter loop on one candidate

RemoteTitles == {"QA Intern", "Senior Dev"}

RemoteSettings ==
    {Settings("id", "key", MaxResults, country, remote, senior, "") :
        country \in {"IN", " any", ""}, remote \in BOOLEAN, senior \in BOOLEAN}

InitRemote ==
    /\ settings \in RemoteSettings
    /\ clock \in Clocks
    /\ profile = NoProfile
    /\ Idle
    /\ cands = <<>>
    /\ nscored = <<>>
    /\ call = None
    /\ ServicesIdle

\* the first four tests of the filter loop
PassFirstFour(op, cfg, clk) ==
    /\ PassSenior(op, cfg)
    /\ PassRegion(op, cfg)
    /\ PassClosed(op)
    /\ PassActive(op, cfg, clk)

\* the filter loop of extract_with_meta on one open, recent candidate
FilterStep(title, location) ==
    LET op == Cand(title, "", "Other", location, "http://j/4", None, Some(Today + 5), <<>>)
    IN  /\ call = None
        /\ call' = Some([fn |-> "filter", location |-> location,
                         first_four |-> PassFirstFour(op, settings, clock),
                         kept |-> Filtered(<<op>>, settings, clock) # <<>>])
        /\ UNCHANGED <<settings, clock, profile, cands, nscored>>
        /\ UNCHANGED <<pipeline, services>>

NextRemote == \E title \in RemoteTitles, location \in Locations : FilterStep(title, location)

SpecRemote == InitRemote /\ [][NextRemote]_vars

\* C26 as stated: under every region mode and remote-inclusion flag, a
\* candidate that passes the first four tests of the filter loop is kept.
C26_RemoteCheckRedundant ==
    call # None => (call[1].first_four <=> call[1].kept)

\* C26 (amended): when the region mode is set and is not 'any', a candidate
\* that passes the first four tests of the filter loop is kept.
C26_RemoteCheckRedundantInRegionMode ==
    (call # None /\ Upper(Strip(settings.opp_country)) \notin {"", "ANY"}) =>
        (call[1].first_four <=> call[1].kept)

\* India-only mode, remote inclusion off: a remote candidate is already
\* excluded by the first four tests; an Indian one passes them and is kept
C26_RegionTestExcludedRemote ==
    /\ call # None
    /\ Strip(settings.opp_country) = "IN" /\ ~settings.opp_include_remote
    /\ call[1].location = "London (remote)"
    /\ ~call[1].first_four /\ ~call[1].kept

\* the keys of the primary query and the fallbacks of the run's profile
BaseKeys == {QueryKey(_build_queries(profile)[i]) : i \in DOMAIN _build_queries(profile)}

\* C27: a query of the deduplicated list whose text, trimmed and in lower
\* case, is that of the primary query or of a fallback has provenance
\* 'base', and no record collected from its pages has match_method 'groq'.
C27_BaseWinsOverGroq ==
    /\ [](pc = "get" =>
            \A i \in DOMAIN queries :
                QueryKey(queries[i].q) \in BaseKeys => queries[i].method = "base")
    /\ [][(pc = "get" /\ pc' = "get" /\ QueryKey(queries[qi].q) \in BaseKeys) =>
            \A i \in DOMAIN loc'.collected :
                i > Len(loc.collected) => loc'.collected[i].match_method # Some("groq")]_vars

\* ------------------------------------------- send_otp and verify_otp with their history

\* calls in progress at once
MaxOtpCalls == 2

\* nothing compared, nothing sent, no send_otp call begun
NoOtpLog ==
    [compared |-> [e \in OtpEmails |-> 0],
     sends |-> [e \in OtpEmails |-> <<>>],
     found |-> [k \in 1..MaxOtpCalls |-> None]]

\* calls one after the other, under every provider setting
InitOtp ==
    /\ settings \in {AuthSettings(p) : p \in {"console", "SMTP", "sms"}}
    /\ clock = [today |-> Today, utcnow |-> NowTicks]
    /\ profile = NoProfile
    /\ Idle
    /\ cands = <<>> /\ nscored = <<>> /\ call = None
    /\ now = 0
    /\ otp_codes = [e \in Emails |-> None]
    /\ verified_emails = [e \in Emails |-> None]
    /\ users = {}
    /\ sheet1 = {}
    /\ reqs = <<NoCallYet>>
    /\ verified_ok = {}
    /\ otp_log = NoOtpLog
    /\ web = <<>> /\ runs = <<>> /\ hist = <<>> /\ groq = <<>>

\* the last n entries of a list
KeepLast(list, n) == SubSeq(list, Max(1, Len(list) - n + 1), Len(list))

\* the send_otp call that began at time t has returned "console" or "smtp";
\* as many entries are kept as can break the hourly limit
LogSend(log, email, t) ==
    [log EXCEPT !.sends[email] =
        KeepLast(Append(@, t), settings.otp_max_sends_per_hour + 1)]

\* send_otp begins: the document it finds is noted
SendOtpGet(k, email, otp) ==
    /\ send_otp_get(k, email, otp)
    /\ otp_log' = [otp_log EXCEPT !.found[k] = otp_codes[email]]

\* a new code is stored: nothing has been compared with it
SendOtpUpsert(k) ==
    /\ send_otp_upsert(k)
    /\ otp_log' =
           LET issued == [otp_log EXCEPT !.compared[reqs[k].email] = 0] IN
           IF Lower(settings.otp_provider) = "console"
               THEN LogSend(issued, reqs[k].email, reqs[k].doc.createdAt)
           ELSE issued

SendOtpSmtp(k, sent) ==
    /\ send_otp_smtp(k, sent)
    /\ otp_log' = IF sent THEN LogSend(otp_log, reqs[k].email, reqs[k].doc.createdAt)
                  ELSE otp_log

\* verify_otp reaches the comparison of otp.strip() with the stored code
VerifyOtpGet(k, email, otp) ==
    /\ verify_otp_get(k, email, otp)
    /\ otp_log' =
           IF reqs'[k].op = "verify_otp" /\ reqs'[k].pc \in {"upsert", "delete"}
               THEN [otp_log EXCEPT !.compared[email] = @ + 1]
           ELSE otp_log

\* a delete leaves no code to compare with
VerifyOtpWrite(k) ==
    /\ verify_otp_write(k)
    /\ otp_log' =
           IF otp_codes'[reqs[k].email] = None
               THEN [otp_log EXCEPT !.compared[reqs[k].email] = 0]
           ELSE otp_log

VerifyOtpMark(k) ==
    /\ verify_otp_mark(k)
    /\ UNCHANGED otp_log

OtpExpires(email) ==
    /\ ExpireDocument(email)
    /\ otp_log' =
           IF otp_codes'[email] = None THEN [otp_log EXCEPT !.compared[email] = 0]
           ELSE otp_log

OtpTick ==
    /\ Tick
    /\ UNCHANGED otp_log

NextOtp ==
    \/ \E k \in DOMAIN reqs, email \in OtpEmails, otp \in OtpCodes : SendOtpGet(k, email, otp)
    \/ \E k \in DOMAIN reqs : SendOtpUpsert(k)
    \/ \E k \in DOMAIN reqs, sent \in BOOLEAN : SendOtpSmtp(k, sent)
    \/ \E k \in DOMAIN reqs, email \in OtpEmails, otp \in OtpInputs : VerifyOtpGet(k, email, otp)
    \/ \E k \in DOMAIN reqs : VerifyOtpWrite(k)
    \/ \E k \in DOMAIN reqs : VerifyOtpMark(k)
    \/ \E email \in OtpEmails : OtpExpires(email)
    \/ OtpTick

SpecOtp == InitOtp /\ [][NextOtp]_vars

\* MaxOtpCalls calls at once, at one instant, under the console provider
InitOtpRace ==
    /\ settings = AuthSettings("console")
    /\ clock = [today |-> Today, utcnow |-> NowTicks]
    /\ profile = NoProfile
    /\ Idle
    /\ cands = <<>> /\ nscored = <<>> /\ call = None
    /\ now = 0
    /\ otp_codes = [e \in Emails |-> None]
    /\ verified_emails = [e \in Emails |-> None]
    /\ users = {}
    /\ sheet1 = {}
    /\ reqs = [k \in 1..MaxOtpCalls |-> NoCallYet]
    /\ verified_ok = {}
    /\ otp_log = NoOtpLog
    /\ web = <<>> /\ runs = <<>> /\ hist = <<>> /\ groq = <<>>

NextOtpRace ==
    \/ \E k \in DOMAIN reqs, email \in OtpEmails, otp \in OtpCodes : SendOtpGet(k, email, otp)
    \/ \E k \in DOMAIN reqs : SendOtpUpsert(k)
    \/ \E k \in DOMAIN reqs, email \in OtpEmails, otp \in OtpInputs : VerifyOtpGet(k, email, otp)
    \/ \E k \in DOMAIN reqs : VerifyOtpWrite(k)
    \/ \E k \in DOMAIN reqs : VerifyOtpMark(k)

SpecOtpRace == InitOtpRace /\ [][NextOtpRace]_vars

\* C28: no more than 5 guesses are compared with one stored code, however
\* the verify_otp calls for the e-mail interleave.
C28_AtMostFiveGuesses ==
    \A e \in OtpEmails : otp_log.compared[e] <= 5

\* C29: of the send_otp calls for one e-mail that returned, two in a row
\* are at least otp_min_resend_seconds apart, and no more than
\* otp_max_sends_per_hour lie within one hour, whatever verify_otp calls and
\* expiries come between.
C29_SendRateLimited ==
    \A e \in OtpEmails :
        LET sent == otp_log.sends[e] IN
        /\ \A i \in 1..(Len(sent) - 1) : sent[i + 1] - sent[i] >= settings.otp_min_resend_seconds
        /\ \A i \in DOMAIN sent :
              Cardinality({j \in DOMAIN sent : j >= i /\ sent[j] - sent[i] < HourTicks})
                  <= settings.otp_max_sends_per_hour

\* C30: when a send_otp call raises, the stored document of the e-mail is
\* the one the call found when it began.
C30_FailedSendLeavesRecord ==
    [][\A k \in DOMAIN reqs :
          (/\ reqs'[k] # reqs[k]
           /\ reqs'[k].op = "idle" /\ reqs'[k].last = "send_otp" /\ reqs'[k].ret = "raised")
              => otp_codes'[reqs'[k].email] = otp_log'.found[k]]_vars

=============================================================================
